---- MODULE Spec2Model ----
(***************************************************************************)
(* Cell-level security engine, audit recorder and records API of the       *)
(* rbac-demo backend (backend/app/security.py, audit.py,                   *)
(* routes/records.py).                                                     *)
(*                                                                         *)
(* Conventions.                                                            *)
(*  - A Python str built by an f-string or str.join is a sequence of       *)
(*    tokens (its literal pieces and the interpolated values, in order);   *)
(*    a plain literal is a TLA+ string.  Text fields that may hold either  *)
(*    are always token sequences.                                          *)
(*  - A Python list is a sequence.                                         *)
(*  - An Optional value is a set with at most one element: None is {},     *)
(*    a present value x is {x}.                                            *)
(***************************************************************************)
EXTENDS Integers, Sequences, FiniteSets, TLC

VARIABLES
    eng_call,    \* harness: the function under evaluation
    eng_user,    \* harness: the user argument
    eng_class,   \* harness: the required classification (or mode, or text) argument
    eng_cells,   \* harness: the cells (or hits, or documents) argument
    eng_ret,     \* harness: Optional return value
    records,     \* table records, with each row's cells, in creation order
    db_users,    \* table users, keyed by keycloak id
    approvals,   \* table need_to_know_approvals, in insertion order
    audit,       \* table audit_log, in insertion order
    nreq,        \* number of requests served
    req,         \* the request served last (Optional)
    mark,        \* Len(audit) when the request served last began
    resp,        \* the response returned to the caller last (Optional)
    clock,       \* time.time()
    keycloak,    \* the key ids of the JWKS Keycloak publishes
    _jwks_cache,        \* auth.py: the cached JWKS (Optional: the empty dict is None)
    _jwks_cache_time,   \* auth.py: when it was fetched
    search_jwks_cache,  \* search-app: _jwks_cache, a dict with keys and fetched_at
    calls        \* the coroutines in flight: locals and position of each

engine_vars == <<eng_call, eng_user, eng_class, eng_cells, eng_ret>>
store_vars == <<records, db_users, approvals, audit, nreq, req, mark, resp>>
auth_vars == <<clock, keycloak, _jwks_cache, _jwks_cache_time, search_jwks_cache, calls>>
api_vars == <<store_vars, auth_vars>>
vars == <<eng_call, eng_user, eng_class, eng_cells, eng_ret,
          records, db_users, approvals, audit, nreq, req, mark, resp,
          clock, keycloak, _jwks_cache, _jwks_cache_time, search_jwks_cache, calls>>

None == {}
Some(x) == {x}
TheVal(o) == CHOOSE x \in o : TRUE

-----------------------------------------------------------------------------
(* Bounds of the model *)

\* longest cell list of an engine call, of a stored record, of a request
MaxCells == 2
\* number of API requests in a run
MaxRequests == 2
\* number of coroutines started in a run
MaxCalls == 2
\* number of times the clock advances by one time-to-live in a run
MaxTicks == 1

-----------------------------------------------------------------------------
(* Value domains *)

Levels == {"UNCLASSIFIED", "CONFIDENTIAL", "SECRET", "TOP_SECRET"}
\* a classification string outside the four levels
UnknownLevel == "RESTRICTED"
LevelStrings == Levels \cup {UnknownLevel}

Compartments == {"PROJECT_ALPHA", "PROJECT_OMEGA"}
\* every duplicate-free list over Compartments
CompLists ==
    {<<>>} \cup {<<a>> : a \in Compartments}
           \cup {<<a, b>> : <<a, b>> \in {p \in Compartments \X Compartments : p[1] # p[2]}}

FieldNames == <<"title", "asset_status", "location", "source">>
FieldValues == <<"v_title", "v_asset_status", "v_location", "v_source">>
CellIds == <<"cell-1", "cell-2", "cell-3", "cell-4">>

\* the i-th cell dict of a list, as routes/records.py builds it from a row
CellDict(i, cls, comps) ==
    [id |-> CellIds[i], field_name |-> FieldNames[i], field_value |-> FieldValues[i],
     cell_classification |-> cls, compartments |-> comps]

RECURSIVE CellListsOfLen(_)
CellListsOfLen(n) ==
    IF n = 0 THEN {<<>>}
    ELSE {Append(s, CellDict(n, cls, comps)) :
            s \in CellListsOfLen(n - 1), cls \in LevelStrings, comps \in CompLists}

CellLists == UNION {CellListsOfLen(n) : n \in 0..MaxCells}

-----------------------------------------------------------------------------
(* security.py *)

REDACTED == "[REDACTED]"
CLASSIFICATION_DENIED == "INSUFFICIENT_CLEARANCE"
COMPARTMENT_DENIED == "NEED_TO_KNOW_REQUIRED"

Contains(list, x) == \E i \in 1..Len(list) : list[i] = x

\* set(list)
ListSet(list) == {list[i] : i \in 1..Len(list)}

\* [c for c in list if c not in held]
RECURSIVE NotIn(_, _)
NotIn(list, held) ==
    IF list = <<>> THEN <<>>
    ELSE (IF Contains(held, Head(list)) THEN <<>> ELSE <<Head(list)>>)
         \o NotIn(Tail(list), held)

\* sep.join(list)
RECURSIVE Join(_, _)
Join(list, sep) ==
    IF list = <<>> THEN <<>>
    ELSE IF Len(list) = 1 THEN <<list[1]>>
    ELSE <<list[1], sep>> \o Join(Tail(list), sep)

clearance_rank_swapped(level) ==
    CASE level = "UNCLASSIFIED" -> 0
      [] level = "CONFIDENTIAL" -> 2
      [] level = "SECRET" -> 1
      [] level = "TOP_SECRET" -> 3
      [] OTHER -> -1

clearance_rank(level) ==
    CASE level = "UNCLASSIFIED" -> 0
      [] level = "CONFIDENTIAL" -> 1
      [] level = "SECRET" -> 2
      [] level = "TOP_SECRET" -> 3
      [] OTHER -> -1

can_access_classification(user_clearance, required) ==
    clearance_rank(user_clearance) >= clearance_rank(required)

has_compartment_access_any(user_compartments, required) ==
    IF required = <<>> THEN TRUE
    ELSE \E i \in 1..Len(required) : Contains(user_compartments, required[i])

has_compartment_access(user_compartments, required) ==
    IF required = <<>> THEN TRUE
    ELSE \A i \in 1..Len(required) : Contains(user_compartments, required[i])

check_record_access(user, record_classification) ==
    IF can_access_classification(user.clearance_level, record_classification)
    THEN [allowed |-> TRUE, reason |-> <<"ACCESS_GRANTED">>]
    ELSE [allowed |-> FALSE,
          reason |-> <<"User clearance ", user.clearance_level,
                       " insufficient for ", record_classification, " record">>]

check_cell_access_comps_first(user, cell_classification, cell_compartments) ==
    IF ~has_compartment_access(user.compartments, cell_compartments)
    THEN LET missing == NotIn(cell_compartments, user.compartments)
         IN [allowed |-> FALSE,
             reason |-> <<COMPARTMENT_DENIED, ": missing [">>
                          \o Join(missing, ", ") \o <<"]">>]
    ELSE IF ~can_access_classification(user.clearance_level, cell_classification)
    THEN [allowed |-> FALSE, reason |-> <<CLASSIFICATION_DENIED>>]
    ELSE [allowed |-> TRUE, reason |-> <<"ACCESS_GRANTED">>]

check_cell_access(user, cell_classification, cell_compartments) ==
    IF ~can_access_classification(user.clearance_level, cell_classification)
    THEN [allowed |-> FALSE, reason |-> <<CLASSIFICATION_DENIED>>]
    ELSE IF ~has_compartment_access(user.compartments, cell_compartments)
    THEN LET missing == NotIn(cell_compartments, user.compartments)
         IN [allowed |-> FALSE,
             reason |-> <<COMPARTMENT_DENIED, ": missing [">>
                          \o Join(missing, ", ") \o <<"]">>]
    ELSE [allowed |-> TRUE, reason |-> <<"ACCESS_GRANTED">>]

\* the log_entry dict of one cell
CellLogEntry(user, cell) ==
    LET d == check_cell_access(user, cell.cell_classification, cell.compartments)
    IN [field_name |-> cell.field_name,
        classification_required |-> cell.cell_classification,
        compartments_required |-> cell.compartments,
        was_allowed |-> d.allowed,
        denial_reason |-> IF d.allowed THEN None ELSE Some(d.reason)]

CellView_keeps_compartments(user, cell) ==
    LET d == check_cell_access(user, cell.cell_classification, cell.compartments)
    IN IF d.allowed
       THEN [id |-> cell.id,
             field_name |-> cell.field_name,
             field_value |-> cell.field_value,
             cell_classification |-> cell.cell_classification,
             compartments |-> cell.compartments,
             accessible |-> TRUE]
       ELSE [id |-> cell.id,
             field_name |-> cell.field_name,
             field_value |-> REDACTED,
             cell_classification |-> cell.cell_classification,
             compartments |-> cell.compartments,
             accessible |-> FALSE,
             denial_reason |-> d.reason]

\* the dict appended to result for one cell
CellView(user, cell) ==
    LET d == check_cell_access(user, cell.cell_classification, cell.compartments)
    IN IF d.allowed
       THEN [id |-> cell.id,
             field_name |-> cell.field_name,
             field_value |-> cell.field_value,
             cell_classification |-> cell.cell_classification,
             compartments |-> cell.compartments,
             accessible |-> TRUE]
       ELSE [id |-> cell.id,
             field_name |-> cell.field_name,
             field_value |-> REDACTED,
             cell_classification |-> cell.cell_classification,
             compartments |-> <<REDACTED>>,
             accessible |-> FALSE,
             denial_reason |-> d.reason]

RECURSIVE AllowedLogEntries(_, _)
AllowedLogEntries(user, cells) ==
    IF cells = <<>> THEN <<>>
    ELSE (IF CellLogEntry(user, Head(cells)).was_allowed
          THEN <<CellLogEntry(user, Head(cells))>> ELSE <<>>)
         \o AllowedLogEntries(user, Tail(cells))

filter_record_cells_logs_allowed_only(user, cells) ==
    [result |-> [i \in 1..Len(cells) |-> CellView(user, cells[i])],
     access_log |-> AllowedLogEntries(user, cells)]

filter_record_cells(user, cells) ==
    [result |-> [i \in 1..Len(cells) |-> CellView(user, cells[i])],
     access_log |-> [i \in 1..Len(cells) |-> CellLogEntry(user, cells[i])]]

-----------------------------------------------------------------------------
(* audit.py *)
(* Every log_event adds one row and commits it; the request provenance     *)
(* columns (ip, user agent, path, method), the timestamp and the always    *)
(* empty old_value/new_value/session_id/user_id columns are left out.      *)

log_event(user, action, resource_type, resource_id, record_title, field_name, classification_required, compartments_required, was_allowed, denial_reason, details) ==
    [username |-> user.username,
     organization |-> user.organization,
     user_clearance |-> Some(user.clearance_level),
     action |-> action,
     resource_type |-> resource_type,
     resource_id |-> resource_id,
     record_title |-> record_title,
     field_name |-> field_name,
     classification_required |-> classification_required,
     compartments_required |->
        IF compartments_required # None /\ TheVal(compartments_required) # <<>>
        THEN compartments_required ELSE None,
     was_allowed |-> was_allowed,
     denial_reason |-> denial_reason,
     details |-> details]

log_record_access(user, record_id, record_title, was_allowed, denial_reason) ==
    log_event(user, IF was_allowed THEN "READ_RECORD" ELSE "ACCESS_DENIED", "record",
              Some(record_id), Some(record_title), None, None, None,
              was_allowed, denial_reason, None)

\* the rows log_cell_access_batch adds, in order
log_cell_access_batch(user, record_id, record_title, cell_access_log) ==
    [i \in 1..Len(cell_access_log) |->
        LET entry == cell_access_log[i]
        IN log_event(user, IF entry.was_allowed THEN "READ_CELL" ELSE "CELL_ACCESS_DENIED",
                     "cell", Some(record_id), Some(record_title), Some(entry.field_name),
                     Some(entry.classification_required), Some(entry.compartments_required),
                     entry.was_allowed, entry.denial_reason, None)]

\* what the caller of log_cell_access_batch gets when no commit raises
BatchDone == [raised |-> FALSE, error |-> None]

\* what it gets when a commit raises: the exception of db.commit() (the
\* connection is lost, say), which log_event and log_cell_access_batch
\* neither catch nor annotate with the entry being written
CommitFailed == [raised |-> TRUE, error |-> Some("commit failed")]

\* log_cell_access_batch when the commit of the fail_at-th log_event raises
\* (fail_at = 0: no commit raises): the rows persisted, and the outcome
log_cell_access_batch_failing(user, record_id, record_title, cell_access_log, fail_at) ==
    LET rows == log_cell_access_batch(user, record_id, record_title, cell_access_log)
    IN IF fail_at \in 1..Len(rows)
       THEN [rows |-> SubSeq(rows, 1, fail_at - 1), outcome |-> CommitFailed]
       ELSE [rows |-> rows, outcome |-> BatchDone]

log_crud_event(user, action, resource_type, resource_id, record_title, field_name, details) ==
    log_event(user, action, resource_type, resource_id, record_title, field_name,
              None, None, TRUE, None, details)

-----------------------------------------------------------------------------
(* auth.py: the principals a validated token yields, and the role check *)

Principals ==
    {[keycloak_id |-> "kc-alice", username |-> "alice_admin",
      organization |-> "Agency Alpha", clearance_level |-> "TOP_SECRET",
      compartments |-> <<"PROJECT_ALPHA", "PROJECT_OMEGA">>,
      roles |-> <<"admin", "auditor">>],
     [keycloak_id |-> "kc-carol", username |-> "carol_viewer",
      organization |-> "Agency Alpha", clearance_level |-> "CONFIDENTIAL",
      compartments |-> <<"PROJECT_ALPHA">>,
      roles |-> <<"viewer">>],
     [keycloak_id |-> "kc-dave", username |-> "dave_manager",
      organization |-> "Agency Alpha", clearance_level |-> "SECRET",
      compartments |-> <<"PROJECT_ALPHA">>,
      roles |-> <<"manager", "analyst">>]}

is_admin(user) == Contains(user.roles, "admin")

\* a checker that lets a caller through only with every role of the list
require_role_every(user, required_roles) ==
    \/ is_admin(user)
    \/ \A r \in required_roles : Contains(user.roles, r)

\* require_role(*required_roles): TRUE when the checker returns the user,
\* FALSE when it raises 403
require_role(user, required_roles) ==
    \/ is_admin(user)
    \/ \E r \in required_roles : Contains(user.roles, r)

RoleDenied(required_list) ==
    [status |-> 403,
     detail |-> <<"Requires one of roles: ">> \o Join(required_list, ", ")]

-----------------------------------------------------------------------------
(* auth.py: the JWKS cache and decode_token *)
(* A coroutine runs without interruption from one await to the next; the   *)
(* only await of get_jwks is the request to Keycloak.  A JWKS is the set   *)
(* of its key ids.  A token is signed with the key it names, so it decodes *)
(* once that key is found.                                                 *)

JWKS_CACHE_TTL == 300

\* the JWKS Keycloak publishes before and after a key rotation
FirstKeys == {"k1"}
RotatedKeys == {"k2"}
Kids == FirstKeys \cup RotatedKeys

\* the tokens presented: the key id of the header and the user of the payload
Tokens == [kid : Kids, username : {"bob_analyst"}]

\* a coroutine that has not started
NoCall ==
    [app |-> "none", kid |-> "", username |-> "", user_id |-> "", pc |-> "idle",
     now |-> 0, lookups |-> <<>>, result |-> None]

AuthIdle ==
    /\ clock = 2 * JWKS_CACHE_TTL
    /\ keycloak = FirstKeys
    /\ _jwks_cache = None
    /\ _jwks_cache_time = 0
    /\ search_jwks_cache = [keys |-> {}, fetched_at |-> 0]
    /\ calls = [c \in 1..MaxCalls |-> NoCall]

\* one call of get_jwks or fetch_jwks, as the caller went through it: the
\* cache it found and the age of that (now minus the time stored with it),
\* what became of the request to Keycloak ("none": not sent), the cache held
\* when the answer came, and the key set returned (None: an exception instead)
Lookup(cached, age, fetch, held, returned) ==
    [cached |-> cached, age |-> age, fetch |-> fetch, held |-> held,
     returned |-> returned]

\* if _jwks_cache and (now - _jwks_cache_time) < JWKS_CACHE_TTL
Fresh(cache, cache_time, now) == cache # None /\ (now - cache_time) < JWKS_CACHE_TTL

\* find_key(jwks, kid) is not None
find_key(jwks, kid) == kid \in jwks

\* the coroutine ends: its locals are gone, what it went through is kept
Finish(call, result) == [call EXCEPT !.pc = "done", !.now = 0, !.result = Some(result)]

\* the payload jwt.decode returns
Payload(call) == [status |-> 200, preferred_username |-> call.username]

UnknownSigningKey == [status |-> 401, detail |-> <<"Unknown signing key">>]

JwksUnavailable ==
    [status |-> 503, detail |-> <<"Cannot reach Keycloak JWKS endpoint: ", "error">>]

\* a decode_token that takes the key set of the first lookup as final
decode_token_resume_no_refresh(call, cache, cache_time, jwks) ==
    IF find_key(jwks, call.kid)
    THEN [call |-> Finish(call, Payload(call)), time |-> cache_time]
    ELSE [call |-> Finish(call, UnknownSigningKey), time |-> cache_time]

\* decode_token from the return of a get_jwks (with jwks, leaving cache and
\* cache_time) to its next await or to its end: the coroutine then, and
\* _jwks_cache_time then
decode_token_resume(call, cache, cache_time, jwks) ==
    IF find_key(jwks, call.kid)
    THEN [call |-> Finish(call, Payload(call)), time |-> cache_time]
    ELSE IF Len(call.lookups) >= 2
    THEN [call |-> Finish(call, UnknownSigningKey), time |-> cache_time]
    ELSE LET now == clock
         IN IF Fresh(cache, 0, now)
            THEN LET again == [call EXCEPT !.lookups =
                                 Append(@, Lookup(cache, now, "none", cache, cache))]
                 IN [call |-> Finish(again, IF find_key(TheVal(cache), call.kid)
                                            THEN Payload(call) ELSE UnknownSigningKey),
                     time |-> 0]
            ELSE [call |-> [call EXCEPT !.pc = "get_jwks", !.now = now,
                                        !.lookups = Append(@,
                                            Lookup(cache, now, "sent", None, None))],
                  time |-> 0]

\* a request reaches get_current_user: decode_token runs to its first await
decode_token(c, token) ==
    /\ calls[c].pc = "idle"
    /\ \A d \in 1..(c - 1) : calls[d].pc # "idle"
    /\ LET now == clock
           call == [NoCall EXCEPT !.app = "backend", !.kid = token.kid,
                                  !.username = token.username]
       IN IF Fresh(_jwks_cache, _jwks_cache_time, now)
          THEN LET hit == [call EXCEPT !.lookups =
                              <<Lookup(_jwks_cache, now - _jwks_cache_time, "none",
                                       _jwks_cache, _jwks_cache)>>]
                   next == decode_token_resume(hit, _jwks_cache, _jwks_cache_time,
                                               TheVal(_jwks_cache))
               IN /\ calls' = [calls EXCEPT ![c] = next.call]
                  /\ _jwks_cache_time' = next.time
          ELSE /\ calls' = [calls EXCEPT ![c] =
                              [call EXCEPT !.pc = "get_jwks", !.now = now,
                                           !.lookups = <<Lookup(_jwks_cache,
                                                now - _jwks_cache_time, "sent", None, None)>>]]
               /\ UNCHANGED _jwks_cache_time
    /\ UNCHANGED <<clock, keycloak, _jwks_cache, search_jwks_cache>>
    /\ UNCHANGED engine_vars
    /\ UNCHANGED store_vars

\* the request get_jwks sent to Keycloak ends, with the JWKS or with an
\* exception, and decode_token runs on to its next await or to its end
get_jwks_returns(c) ==
    /\ calls[c].app = "backend"
    /\ calls[c].pc = "get_jwks"
    /\ \E ok \in BOOLEAN :
         LET call == calls[c]
             n == Len(call.lookups)
         IN IF ok
            THEN LET got == [call EXCEPT !.lookups[n] =
                                Lookup(@.cached, @.age, "ok", _jwks_cache, Some(keycloak))]
                     next == decode_token_resume(got, Some(keycloak), call.now, keycloak)
                 IN /\ _jwks_cache' = Some(keycloak)
                    /\ _jwks_cache_time' = next.time
                    /\ calls' = [calls EXCEPT ![c] = next.call]
            ELSE IF _jwks_cache # None
            THEN LET got == [call EXCEPT !.lookups[n] =
                                Lookup(@.cached, @.age, "failed", _jwks_cache, _jwks_cache)]
                     next == decode_token_resume(got, _jwks_cache, _jwks_cache_time,
                                                 TheVal(_jwks_cache))
                 IN /\ _jwks_cache_time' = next.time
                    /\ calls' = [calls EXCEPT ![c] = next.call]
                    /\ UNCHANGED _jwks_cache
            ELSE /\ calls' = [calls EXCEPT ![c] =
                                Finish([call EXCEPT !.lookups[n] =
                                           Lookup(@.cached, @.age, "failed", None, None)],
                                       JwksUnavailable)]
                 /\ UNCHANGED <<_jwks_cache, _jwks_cache_time>>
    /\ UNCHANGED <<clock, keycloak, search_jwks_cache>>
    /\ UNCHANGED engine_vars
    /\ UNCHANGED store_vars

-----------------------------------------------------------------------------
(* search-app/main.py: the JWKS cache, validate_token and get_user_profile *)
(* _jwks_cache["keys"] maps key ids to keys: its set of key ids stands for *)
(* it, and the empty set is the empty dict.                                *)

Profile(username, organization, roles, clearance, cell_memberships, compartments) ==
    [username |-> username, organization |-> organization, roles |-> roles,
     clearance |-> clearance, cell_memberships |-> cell_memberships,
     compartments |-> compartments]

ALL_CELLS == <<"cell-east", "cell-west", "cell-hq", "cell-cyber">>

\* COMPARTMENT_CELL_MAP[comp], empty for a compartment that is not a key
COMPARTMENT_CELL_MAP(comp) ==
    CASE comp = "PROJECT_ALPHA" -> {"cell-hq", "cell-east"}
      [] comp = "PROJECT_OMEGA" -> {"cell-hq", "cell-cyber"}
      [] comp = "OPERATION_DELTA" -> {"cell-west", "cell-hq"}
      [] comp = "PROJECT_BRAVO" -> {"cell-west"}
      [] OTHER -> {}

\* the members of cells, in the order of ALL_CELLS
RECURSIVE CellList(_, _)
CellList(cells, order) ==
    IF order = <<>> THEN <<>>
    ELSE (IF Head(order) \in cells THEN <<Head(order)>> ELSE <<>>)
         \o CellList(cells, Tail(order))

\* list(cells) leaves the order of the set open; the order of ALL_CELLS is
\* taken for it
compartments_to_cells(compartments, admin) ==
    IF admin THEN ALL_CELLS
    ELSE CellList(UNION {COMPARTMENT_CELL_MAP(compartments[i]) :
                            i \in 1..Len(compartments)}, ALL_CELLS)

DemoUserIds ==
    {"alpha-admin", "alpha-senior", "alpha-analyst", "alpha-viewer",
     "bravo-analyst", "bravo-viewer"}

DEMO_USERS(user_id) ==
    CASE user_id = "alpha-admin" ->
            Profile("alpha-admin", "agency-alpha", <<"admin">>, "TOP_SECRET", ALL_CELLS,
                    <<"PROJECT_ALPHA", "PROJECT_OMEGA", "OPERATION_DELTA">>)
      [] user_id = "alpha-senior" ->
            Profile("alpha-senior", "agency-alpha", <<"senior-analyst">>, "SECRET",
                    <<"cell-east", "cell-hq">>, <<"PROJECT_ALPHA", "PROJECT_OMEGA">>)
      [] user_id = "alpha-analyst" ->
            Profile("alpha-analyst", "agency-alpha", <<"analyst">>, "CONFIDENTIAL",
                    <<"cell-hq">>, <<"PROJECT_ALPHA">>)
      [] user_id = "alpha-viewer" ->
            Profile("alpha-viewer", "agency-alpha", <<"viewer">>, "UNCLASSIFIED",
                    <<>>, <<>>)
      [] user_id = "bravo-analyst" ->
            Profile("bravo-analyst", "agency-bravo", <<"analyst">>, "SECRET",
                    <<"cell-west">>, <<"PROJECT_ALPHA">>)
      [] user_id = "bravo-viewer" ->
            Profile("bravo-viewer", "agency-bravo", <<"viewer">>, "UNCLASSIFIED",
                    <<>>, <<>>)

KeycloakUsernames ==
    {"alice_admin", "bob_analyst", "carol_viewer", "dave_manager", "eve_auditor",
     "frank_bravo", "grace_bravo"}

KEYCLOAK_USER_PROFILES(username) ==
    CASE username = "alice_admin" ->
            Profile("alice_admin", "agency-alpha", <<"admin", "auditor">>, "TOP_SECRET",
                    ALL_CELLS, <<"PROJECT_ALPHA", "PROJECT_OMEGA", "OPERATION_DELTA">>)
      [] username = "bob_analyst" ->
            Profile("bob_analyst", "agency-alpha", <<"analyst">>, "SECRET",
                    <<"cell-hq", "cell-east", "cell-cyber">>,
                    <<"PROJECT_ALPHA", "PROJECT_OMEGA">>)
      [] username = "carol_viewer" ->
            Profile("carol_viewer", "agency-alpha", <<"viewer">>, "CONFIDENTIAL",
                    <<"cell-hq", "cell-east">>, <<"PROJECT_ALPHA">>)
      [] username = "dave_manager" ->
            Profile("dave_manager", "agency-alpha", <<"manager", "analyst">>, "SECRET",
                    <<"cell-hq", "cell-west", "cell-east">>,
                    <<"PROJECT_ALPHA", "OPERATION_DELTA">>)
      [] username = "eve_auditor" ->
            Profile("eve_auditor", "agency-alpha", <<"auditor", "viewer">>, "TOP_SECRET",
                    ALL_CELLS, <<"PROJECT_ALPHA", "PROJECT_OMEGA", "OPERATION_DELTA">>)
      [] username = "frank_bravo" ->
            Profile("frank_bravo", "agency-bravo", <<"analyst">>, "SECRET",
                    <<"cell-west">>, <<"PROJECT_ALPHA">>)
      [] username = "grace_bravo" ->
            Profile("grace_bravo", "agency-bravo", <<"viewer">>, "CONFIDENTIAL",
                    <<>>, <<>>)

\* normalize_organization on the organization claims of the realm
normalize_organization(org) ==
    CASE org = "" -> "agency-alpha"
      [] org \in {"Agency Alpha", "agency-alpha"} -> "agency-alpha"
      [] org \in {"Agency Bravo", "agency-bravo"} -> "agency-bravo"

\* the claims of the tokens presented, as validate_token extracts them
AuthenticatedUser(username) ==
    [username |-> username, organization |-> "Agency Alpha",
     clearance_level |-> "SECRET", compartments |-> <<"PROJECT_ALPHA">>,
     roles |-> <<"analyst">>, is_authenticated |-> TRUE]

\* validate_token from the return of fetch_jwks on: Optional[AuthenticatedUser]
validate_token(call, keys) ==
    IF keys = {} \/ call.kid \notin keys THEN None
    ELSE Some(AuthenticatedUser(call.username))

get_user_profile(auth_user, user_id) ==
    IF auth_user # None /\ TheVal(auth_user).is_authenticated
    THEN LET u == TheVal(auth_user)
         IN IF u.username \in KeycloakUsernames
            THEN [KEYCLOAK_USER_PROFILES(u.username) EXCEPT
                     !.organization = normalize_organization(u.organization)]
            ELSE Profile(u.username, normalize_organization(u.organization), u.roles,
                         u.clearance_level,
                         compartments_to_cells(u.compartments, Contains(u.roles, "admin")),
                         u.compartments)
    ELSE IF user_id # "" /\ user_id \in DemoUserIds
    THEN DEMO_USERS(user_id)
    ELSE DEMO_USERS("alpha-analyst")

\* GET /api/me from the return of fetch_jwks (with keys) to its end
get_current_user_profile_resume(call, keys) ==
    LET auth_user == validate_token(call, keys)
    IN Finish(call, [status |-> 200,
                     authenticated |-> auth_user # None,
                     source |-> IF auth_user # None THEN "keycloak" ELSE "demo",
                     profile |-> get_user_profile(auth_user, call.user_id)])

\* a request with a bearer token reaches GET /api/me: get_current_user,
\* validate_token and fetch_jwks run to the first await
get_current_user_profile(c, token, user_id) ==
    /\ calls[c].pc = "idle"
    /\ \A d \in 1..(c - 1) : calls[d].pc # "idle"
    /\ LET now == clock
           cache == search_jwks_cache
           cached == IF cache.keys # {} THEN Some(cache.keys) ELSE None
           call == [NoCall EXCEPT !.app = "search", !.kid = token.kid,
                                  !.username = token.username, !.user_id = user_id]
       IN IF cache.keys # {} /\ (now - cache.fetched_at) < JWKS_CACHE_TTL
          THEN calls' = [calls EXCEPT ![c] =
                  get_current_user_profile_resume(
                      [call EXCEPT !.lookups =
                          <<Lookup(cached, now - cache.fetched_at, "none", cached, cached)>>],
                      cache.keys)]
          ELSE calls' = [calls EXCEPT ![c] =
                  [call EXCEPT !.pc = "fetch_jwks", !.now = now,
                               !.lookups = <<Lookup(cached, now - cache.fetched_at, "sent",
                                                    None, None)>>]]
    /\ UNCHANGED <<clock, keycloak, _jwks_cache, _jwks_cache_time, search_jwks_cache>>
    /\ UNCHANGED engine_vars
    /\ UNCHANGED store_vars

\* the request fetch_jwks sent to Keycloak ends, with the JWKS or with an
\* exception, and the handler runs to its end
fetch_jwks_returns(c) ==
    /\ calls[c].app = "search"
    /\ calls[c].pc = "fetch_jwks"
    /\ \E ok \in BOOLEAN :
         LET call == calls[c]
             held == IF search_jwks_cache.keys # {}
                     THEN Some(search_jwks_cache.keys) ELSE None
         IN IF ok
            THEN /\ search_jwks_cache' = [keys |-> keycloak, fetched_at |-> call.now]
                 /\ calls' = [calls EXCEPT ![c] =
                       get_current_user_profile_resume(
                           [call EXCEPT !.lookups[1] =
                               Lookup(@.cached, @.age, "ok", held, Some(keycloak))],
                           keycloak)]
            ELSE /\ UNCHANGED search_jwks_cache
                 /\ calls' = [calls EXCEPT ![c] =
                       get_current_user_profile_resume(
                           [call EXCEPT !.lookups[1] =
                               Lookup(@.cached, @.age, "failed", held, held)],
                           search_jwks_cache.keys)]
    /\ UNCHANGED <<clock, keycloak, _jwks_cache, _jwks_cache_time>>
    /\ UNCHANGED engine_vars
    /\ UNCHANGED store_vars

-----------------------------------------------------------------------------
(* routes/records.py *)
(* A record row carries its cells (selectinload); a record id is the row's *)
(* position in creation order; timestamps and description are left out.    *)

UserId(keycloak_id) == <<"user", keycloak_id>>

UserRow(user) ==
    [id |-> UserId(user.keycloak_id),
     keycloak_id |-> user.keycloak_id,
     username |-> user.username,
     organization |-> user.organization,
     clearance_level |-> user.clearance_level,
     approved_compartments |-> user.compartments,
     roles |-> user.roles,
     is_active |-> TRUE]

HasRow(users, keycloak_id) == \E i \in 1..Len(users) : users[i].keycloak_id = keycloak_id

\* the users table after ensure_user_synced(db, user)
ensure_user_synced(users, user) ==
    IF HasRow(users, user.keycloak_id)
    THEN [i \in 1..Len(users) |->
            IF users[i].keycloak_id = user.keycloak_id
            THEN [users[i] EXCEPT !.clearance_level = user.clearance_level,
                                  !.approved_compartments = user.compartments,
                                  !.roles = user.roles,
                                  !.organization = user.organization]
            ELSE users[i]]
    ELSE Append(users, UserRow(user))

\* cells_data of a record row
cells_data(record) ==
    [i \in 1..Len(record.cells) |->
        [id |-> record.cells[i].id,
         field_name |-> record.cells[i].field_name,
         field_value |-> record.cells[i].field_value,
         cell_classification |-> record.cells[i].cell_classification,
         compartments |-> record.cells[i].compartments]]

get_access_summary(user) ==
    [username |-> user.username,
     organization |-> user.organization,
     clearance_level |-> user.clearance_level,
     max_record_classification |-> user.clearance_level,
     approved_compartments |-> user.compartments,
     roles |-> user.roles,
     can_view_unclassified |-> TRUE,
     can_view_confidential |-> clearance_rank(user.clearance_level) >= 1,
     can_view_secret |-> clearance_rank(user.clearance_level) >= 2,
     can_view_top_secret |-> clearance_rank(user.clearance_level) >= 3]

RECURSIVE CountAccessible(_)
CountAccessible(views) ==
    IF views = <<>> THEN 0
    ELSE (IF Head(views).accessible THEN 1 ELSE 0) + CountAccessible(Tail(views))

\* the dict get_record returns and list_records appends for a visible record
RecordView(user, record) ==
    LET filtered_cells == filter_record_cells(user, cells_data(record)).result
        total_cells == Len(filtered_cells)
        accessible_cells == CountAccessible(filtered_cells)
    IN [id |-> record.id,
        title |-> record.title,
        record_classification |-> record.record_classification,
        cells |-> filtered_cells,
        access_stats |-> [total_cells |-> total_cells,
                          accessible_cells |-> accessible_cells,
                          redacted_cells |-> total_cells - accessible_cells]]

\* select(Record).where(is_deleted == False).order_by(created_at.desc())
RECURSIVE LiveNewestFirst(_)
LiveNewestFirst(rows) ==
    IF rows = <<>> THEN <<>>
    ELSE LET last == rows[Len(rows)]
             rest == LiveNewestFirst(SubSeq(rows, 1, Len(rows) - 1))
         IN IF last.is_deleted THEN rest ELSE <<last>> \o rest

\* a select by id that leaves the deleted flag out of its where clause
FindLive_any_flag(rows, record_id) ==
    IF record_id \in 1..Len(rows) THEN Some(rows[record_id]) ELSE None

\* select(Record).where(id == record_id, is_deleted == False)
FindLive(rows, record_id) ==
    IF record_id \in 1..Len(rows) /\ ~rows[record_id].is_deleted
    THEN Some(rows[record_id]) ELSE None

\* a loop that filters the cells of a record whatever the record-level decision
ListLoopRows_cells_always(user, record) ==
    LET d == check_record_access(user, record.record_classification)
    IN (IF ~d.allowed
        THEN <<log_record_access(user, record.id, record.title, FALSE, Some(d.reason))>>
        ELSE <<>>)
       \o log_cell_access_batch(user, record.id, record.title,
                filter_record_cells(user, cells_data(record)).access_log)

\* the audit rows the loop of list_records writes for one record
ListLoopRows(user, record) ==
    LET d == check_record_access(user, record.record_classification)
    IN IF ~d.allowed
       THEN <<log_record_access(user, record.id, record.title, FALSE, Some(d.reason))>>
       ELSE log_cell_access_batch(user, record.id, record.title,
                filter_record_cells(user, cells_data(record)).access_log)

RECURSIVE ListLoopAudit(_, _)
ListLoopAudit(user, recs) ==
    IF recs = <<>> THEN <<>>
    ELSE ListLoopRows(user, Head(recs)) \o ListLoopAudit(user, Tail(recs))

\* a loop that appends every record whatever the record-level decision
RECURSIVE ListLoopVisible_unchecked(_, _)
ListLoopVisible_unchecked(user, recs) ==
    IF recs = <<>> THEN <<>>
    ELSE <<RecordView(user, Head(recs))>> \o ListLoopVisible_unchecked(user, Tail(recs))

\* visible_records after the loop of list_records
RECURSIVE ListLoopVisible(_, _)
ListLoopVisible(user, recs) ==
    IF recs = <<>> THEN <<>>
    ELSE (IF check_record_access(user, Head(recs).record_classification).allowed
          THEN <<RecordView(user, Head(recs))>> ELSE <<>>)
         \o ListLoopVisible(user, Tail(recs))

NotFound == [status |-> 404, detail |-> <<"Record not found">>]
AccessDenied(reason) == [status |-> 403, detail |-> <<"Access denied: ">> \o reason]

Serve(op, user, record_id, data) ==
    /\ nreq < MaxRequests
    /\ nreq' = nreq + 1
    /\ req' = Some([op |-> op, user |-> user, record_id |-> record_id, data |-> data])
    /\ mark' = Len(audit)
    /\ UNCHANGED approvals
    /\ UNCHANGED engine_vars
    /\ UNCHANGED auth_vars

list_records(user) ==
    LET recs == LiveNewestFirst(records)
        visible_records == ListLoopVisible(user, recs)
    IN /\ Serve("list_records", user, None, None)
       /\ db_users' = ensure_user_synced(db_users, user)
       /\ audit' = audit \o ListLoopAudit(user, recs)
                    \o <<log_crud_event(user, "LIST_RECORDS", "record", None, None, None,
                            Some([total_records |-> Len(recs),
                                  visible_records |-> Len(visible_records),
                                  hidden_records |-> Len(recs) - Len(visible_records)]))>>
       /\ resp' = Some([status |-> 200,
                        records |-> visible_records,
                        access_summary |-> get_access_summary(user),
                        total_in_system |-> Len(recs),
                        visible_to_you |-> Len(visible_records),
                        hidden_by_classification |-> Len(recs) - Len(visible_records)])
       /\ UNCHANGED records

get_record(user, record_id) ==
    LET found == FindLive(records, record_id)
    IN /\ Serve("get_record", user, Some(record_id), None)
       /\ UNCHANGED <<records, db_users>>
       /\ IF found = None
          THEN /\ resp' = Some(NotFound)
               /\ UNCHANGED audit
          ELSE LET record == TheVal(found)
                   d == check_record_access(user, record.record_classification)
                   access == log_record_access(user, record.id, record.title, d.allowed,
                                 IF ~d.allowed THEN Some(d.reason) ELSE None)
               IN IF ~d.allowed
                  THEN /\ audit' = Append(audit, access)
                       /\ resp' = Some(AccessDenied(d.reason))
                  ELSE /\ audit' = Append(audit, access)
                                    \o log_cell_access_batch(user, record.id, record.title,
                                         filter_record_cells(user, cells_data(record)).access_log)
                       /\ resp' = Some([status |-> 200] @@ RecordView(user, record))

\* the rows create_record adds for data.cells
NewCells(record_id, cells) ==
    [j \in 1..Len(cells) |->
        [id |-> <<record_id, j>>,
         field_name |-> cells[j].field_name,
         field_value |-> cells[j].field_value,
         cell_classification |-> cells[j].cell_classification,
         compartments |-> cells[j].compartments]]

\* a create_record that stores the record whatever its classification
create_record_any_classification(user, data) ==
    /\ Serve("create_record", user, None, Some(data))
    /\ IF ~require_role(user, {"analyst", "manager", "admin"})
       THEN /\ resp' = Some(RoleDenied(<<"analyst", "manager", "admin">>))
            /\ UNCHANGED <<records, db_users, audit>>
       ELSE LET id == Len(records) + 1
                record == [id |-> id,
                           title |-> data.title,
                           record_classification |-> data.record_classification,
                           is_deleted |-> FALSE,
                           created_by |-> Some(UserId(user.keycloak_id)),
                           updated_by |-> None,
                           cells |-> NewCells(id, data.cells)]
            IN /\ db_users' = ensure_user_synced(db_users, user)
               /\ records' = Append(records, record)
               /\ audit' = Append(audit,
                    log_crud_event(user, "CREATE", "record", Some(id),
                        Some(data.title), None,
                        Some([classification |-> data.record_classification,
                              cell_count |-> Len(data.cells)])))
               /\ resp' = Some([status |-> 201, id |-> id, title |-> data.title,
                                message |-> "Record created successfully"])

create_record(user, data) ==
    /\ Serve("create_record", user, None, Some(data))
    /\ IF ~require_role(user, {"analyst", "manager", "admin"})
       THEN /\ resp' = Some(RoleDenied(<<"analyst", "manager", "admin">>))
            /\ UNCHANGED <<records, db_users, audit>>
       ELSE /\ db_users' = ensure_user_synced(db_users, user)
            /\ IF clearance_rank(data.record_classification)
                    > clearance_rank(user.clearance_level)
               THEN /\ resp' = Some([status |-> 403,
                                     detail |-> <<"Cannot create records above your clearance level">>])
                    /\ UNCHANGED <<records, audit>>
               ELSE LET id == Len(records) + 1
                        record == [id |-> id,
                                   title |-> data.title,
                                   record_classification |-> data.record_classification,
                                   is_deleted |-> FALSE,
                                   created_by |-> Some(UserId(user.keycloak_id)),
                                   updated_by |-> None,
                                   cells |-> NewCells(id, data.cells)]
                    IN /\ records' = Append(records, record)
                       /\ audit' = Append(audit,
                            log_crud_event(user, "CREATE", "record", Some(id),
                                Some(data.title), None,
                                Some([classification |-> data.record_classification,
                                      cell_count |-> Len(data.cells)])))
                       /\ resp' = Some([status |-> 201, id |-> id, title |-> data.title,
                                        message |-> "Record created successfully"])

\* next((c for c in record.cells if c.field_name == name), None), as an index
FirstCell(cells, name) ==
    IF \E i \in 1..Len(cells) : cells[i].field_name = name
    THEN Some(CHOOSE i \in 1..Len(cells) :
                /\ cells[i].field_name = name
                /\ \A j \in 1..(i - 1) : cells[j].field_name # name)
    ELSE None

\* changes[key] = {"old": old, "new": new} on a dict kept in insertion order
DictPut(changes, key, old, new) ==
    IF \E i \in 1..Len(changes) : changes[i].key = key
    THEN [i \in 1..Len(changes) |->
            IF changes[i].key = key THEN [key |-> key, old |-> old, new |-> new]
            ELSE changes[i]]
    ELSE Append(changes, [key |-> key, old |-> old, new |-> new])

\* an iteration that decides on the proposed classification and compartments
UpdateCell_checks_proposed(user, record_id, st, cell_update) ==
    LET at == FirstCell(st.cells, cell_update.field_name)
    IN IF at = None THEN st
       ELSE LET i == TheVal(at)
                existing == st.cells[i]
                d == check_cell_access(user,
                        IF cell_update.cell_classification # None
                        THEN TheVal(cell_update.cell_classification)
                        ELSE existing.cell_classification,
                        IF cell_update.compartments # None
                        THEN TheVal(cell_update.compartments)
                        ELSE existing.compartments)
            IN IF ~d.allowed
               THEN [st EXCEPT !.rows = Append(@,
                        log_crud_event(user, "CELL_UPDATE_DENIED", "cell", Some(record_id),
                            None, Some(cell_update.field_name),
                            Some([reason |-> d.reason])))]
               ELSE [st EXCEPT
                        !.cells[i].field_value =
                            IF cell_update.field_value # None
                            THEN TheVal(cell_update.field_value) ELSE @,
                        !.cells[i].cell_classification =
                            IF cell_update.cell_classification # None
                            THEN TheVal(cell_update.cell_classification) ELSE @,
                        !.cells[i].compartments =
                            IF cell_update.compartments # None
                            THEN TheVal(cell_update.compartments) ELSE @,
                        !.changes = DictPut(@, <<"cell:", cell_update.field_name>>,
                                            existing.field_value, cell_update.field_value)]

\* one iteration of the cell loop of update_record on st = [cells, changes, rows]
UpdateCell(user, record_id, st, cell_update) ==
    LET at == FirstCell(st.cells, cell_update.field_name)
    IN IF at = None THEN st
       ELSE LET i == TheVal(at)
                existing == st.cells[i]
                d == check_cell_access(user, existing.cell_classification,
                                       existing.compartments)
            IN IF ~d.allowed
               THEN [st EXCEPT !.rows = Append(@,
                        log_crud_event(user, "CELL_UPDATE_DENIED", "cell", Some(record_id),
                            None, Some(cell_update.field_name),
                            Some([reason |-> d.reason])))]
               ELSE [st EXCEPT
                        !.cells[i].field_value =
                            IF cell_update.field_value # None
                            THEN TheVal(cell_update.field_value) ELSE @,
                        !.cells[i].cell_classification =
                            IF cell_update.cell_classification # None
                            THEN TheVal(cell_update.cell_classification) ELSE @,
                        !.cells[i].compartments =
                            IF cell_update.compartments # None
                            THEN TheVal(cell_update.compartments) ELSE @,
                        !.changes = DictPut(@, <<"cell:", cell_update.field_name>>,
                                            existing.field_value, cell_update.field_value)]

RECURSIVE UpdateCells(_, _, _, _)
UpdateCells(user, record_id, st, cell_updates) ==
    IF cell_updates = <<>> THEN st
    ELSE UpdateCells(user, record_id,
                     UpdateCell(user, record_id, st, Head(cell_updates)),
                     Tail(cell_updates))

update_record(user, record_id, data) ==
    LET found == FindLive(records, record_id)
    IN /\ Serve("update_record", user, Some(record_id), Some(data))
       /\ IF ~require_role(user, {"analyst", "manager", "admin"})
          THEN /\ resp' = Some(RoleDenied(<<"analyst", "manager", "admin">>))
               /\ UNCHANGED <<records, db_users, audit>>
          ELSE IF found = None
          THEN /\ resp' = Some(NotFound)
               /\ UNCHANGED <<records, db_users, audit>>
          ELSE LET record == TheVal(found)
                   d == check_record_access(user, record.record_classification)
               IN IF ~d.allowed
                  THEN /\ audit' = Append(audit,
                            log_crud_event(user, "UPDATE_DENIED", "record", Some(record.id),
                                Some(record.title), None, Some([reason |-> d.reason])))
                       /\ resp' = Some(AccessDenied(d.reason))
                       /\ UNCHANGED <<records, db_users>>
                  ELSE LET ch1 == IF data.title # None
                                  THEN DictPut(<<>>, <<"title">>, record.title,
                                               TheVal(data.title))
                                  ELSE <<>>
                           ch2 == IF data.record_classification # None
                                  THEN DictPut(ch1, <<"classification">>,
                                               record.record_classification,
                                               TheVal(data.record_classification))
                                  ELSE ch1
                           st0 == [cells |-> record.cells, changes |-> ch2, rows |-> <<>>]
                           st == IF data.cells # None /\ TheVal(data.cells) # <<>>
                                 THEN UpdateCells(user, record.id, st0, TheVal(data.cells))
                                 ELSE st0
                           updated ==
                               [record EXCEPT
                                  !.title = IF data.title # None
                                            THEN TheVal(data.title) ELSE @,
                                  !.record_classification =
                                      IF data.record_classification # None
                                      THEN TheVal(data.record_classification) ELSE @,
                                  !.updated_by = Some(UserId(user.keycloak_id)),
                                  !.cells = st.cells]
                       IN /\ db_users' = ensure_user_synced(db_users, user)
                          /\ records' = [records EXCEPT ![record_id] = updated]
                          /\ audit' = (audit \o st.rows)
                                \o <<log_crud_event(user, "UPDATE", "record", Some(record.id),
                                        Some(updated.title), None,
                                        Some([changes |-> st.changes]))>>
                          /\ resp' = Some([status |-> 200, message |-> "Record updated",
                                           changes |-> [i \in 1..Len(st.changes) |->
                                                            st.changes[i].key]])

delete_record(user, record_id) ==
    LET found == FindLive(records, record_id)
    IN /\ Serve("delete_record", user, Some(record_id), None)
       /\ UNCHANGED db_users
       /\ IF ~require_role(user, {"manager", "admin"})
          THEN /\ resp' = Some(RoleDenied(<<"manager", "admin">>))
               /\ UNCHANGED <<records, audit>>
          ELSE IF found = None
          THEN /\ resp' = Some(NotFound)
               /\ UNCHANGED <<records, audit>>
          ELSE LET record == TheVal(found)
                   d == check_record_access(user, record.record_classification)
               IN IF ~d.allowed
                  THEN /\ resp' = Some(AccessDenied(d.reason))
                       /\ UNCHANGED <<records, audit>>
                  ELSE /\ records' = [records EXCEPT ![record_id].is_deleted = TRUE]
                       /\ audit' = Append(audit,
                            log_crud_event(user, "DELETE", "record", Some(record.id),
                                Some(record.title), None, None))
                       /\ resp' = Some([status |-> 200, message |-> "Record deleted"])

-----------------------------------------------------------------------------
(* routes/admin.py *)
(* An approval id is the row's position in insertion order; reason and     *)
(* expires_at are left out.                                                *)

\* select(User).where(User.id == user_id), as an index
FindUser(users, user_id) ==
    IF \E i \in 1..Len(users) : users[i].id = user_id
    THEN Some(CHOOSE i \in 1..Len(users) : users[i].id = user_id)
    ELSE None

UserNotFound == [status |-> 404, detail |-> <<"User not found">>]

ServeAdmin(op, user, data) ==
    /\ nreq < MaxRequests
    /\ nreq' = nreq + 1
    /\ req' = Some([op |-> op, user |-> user, record_id |-> None, data |-> Some(data)])
    /\ mark' = Len(audit)
    /\ UNCHANGED records
    /\ UNCHANGED engine_vars
    /\ UNCHANGED auth_vars

\* an update_user that also rewrites the clearance stored in the audit rows
\* of the target user
update_user_rewrites_audit(user, user_id, data) ==
    LET at == FindUser(db_users, user_id)
    IN /\ ServeAdmin("update_user", user, [user_id |-> user_id] @@ data)
       /\ UNCHANGED approvals
       /\ IF ~require_role(user, {"admin"})
          THEN /\ resp' = Some(RoleDenied(<<"admin">>))
               /\ UNCHANGED <<db_users, audit>>
          ELSE IF at = None
          THEN /\ resp' = Some(UserNotFound)
               /\ UNCHANGED <<db_users, audit>>
          ELSE LET i == TheVal(at)
                   target == db_users[i]
                   after == IF data.clearance_level # None
                            THEN TheVal(data.clearance_level) ELSE target.clearance_level
               IN /\ db_users' = [db_users EXCEPT ![i].clearance_level = after]
                  /\ audit' = Append([n \in 1..Len(audit) |->
                                        IF audit[n].username = target.username
                                        THEN [audit[n] EXCEPT !.user_clearance = Some(after)]
                                        ELSE audit[n]],
                        log_crud_event(user, "UPDATE_USER", "user", Some(user_id), None, None,
                            Some([target_user |-> target.username])))
                  /\ resp' = Some([status |-> 200,
                                   message |-> <<"User ", target.username, " updated">>])

update_user(user, user_id, data) ==
    LET at == FindUser(db_users, user_id)
    IN /\ ServeAdmin("update_user", user, [user_id |-> user_id] @@ data)
       /\ UNCHANGED approvals
       /\ IF ~require_role(user, {"admin"})
          THEN /\ resp' = Some(RoleDenied(<<"admin">>))
               /\ UNCHANGED <<db_users, audit>>
          ELSE IF at = None
          THEN /\ resp' = Some(UserNotFound)
               /\ UNCHANGED <<db_users, audit>>
          ELSE LET i == TheVal(at)
                   target == db_users[i]
                   ch1 == IF data.clearance_level # None
                          THEN DictPut(<<>>, <<"clearance_level">>,
                                       Some(target.clearance_level), data.clearance_level)
                          ELSE <<>>
                   changes == IF data.is_active # None
                              THEN DictPut(ch1, <<"is_active">>,
                                           Some(target.is_active), data.is_active)
                              ELSE ch1
               IN /\ db_users' =
                        [db_users EXCEPT
                            ![i].clearance_level =
                                IF data.clearance_level # None
                                THEN TheVal(data.clearance_level) ELSE @,
                            ![i].is_active =
                                IF data.is_active # None THEN TheVal(data.is_active) ELSE @]
                  /\ audit' = Append(audit,
                        log_crud_event(user, "UPDATE_USER", "user", Some(user_id), None, None,
                            Some([target_user |-> target.username, changes |-> changes])))
                  /\ resp' = Some([status |-> 200,
                                   message |-> <<"User ", target.username, " updated">>,
                                   changes |-> changes])

\* select(NeedToKnowApproval).where(user_id == ..., compartment == ...)
ExistingApproval(rows, user_id, compartment) ==
    \E k \in 1..Len(rows) : rows[k].user_id = user_id /\ rows[k].compartment = compartment

create_approval(user, data) ==
    LET at == FindUser(db_users, data.user_id)
    IN /\ ServeAdmin("create_approval", user, data)
       /\ IF ~require_role(user, {"manager", "admin"})
          THEN /\ resp' = Some(RoleDenied(<<"manager", "admin">>))
               /\ UNCHANGED <<db_users, approvals, audit>>
          ELSE IF at = None
          THEN /\ resp' = Some(UserNotFound)
               /\ UNCHANGED <<db_users, approvals, audit>>
          ELSE IF ExistingApproval(approvals, data.user_id, data.compartment)
          THEN /\ resp' = Some([status |-> 409,
                                detail |-> <<"User already has approval for ",
                                             data.compartment>>])
               /\ UNCHANGED <<db_users, approvals, audit>>
          ELSE LET i == TheVal(at)
                   target == db_users[i]
                   approver == IF HasRow(db_users, user.keycloak_id)
                               THEN Some(UserId(user.keycloak_id)) ELSE None
                   id == Len(approvals) + 1
               IN /\ approvals' = Append(approvals,
                        [id |-> id, user_id |-> data.user_id,
                         compartment |-> data.compartment,
                         approved_by |-> approver, status |-> "ACTIVE"])
                  /\ db_users' =
                        [db_users EXCEPT ![i].approved_compartments =
                            IF Contains(@, data.compartment) THEN @
                            ELSE Append(@, data.compartment)]
                  /\ audit' = Append(audit,
                        log_crud_event(user, "GRANT_NTK", "approval", Some(id), None, None,
                            Some([target_user |-> target.username,
                                  compartment |-> data.compartment])))
                  /\ resp' = Some([status |-> 200,
                                   message |-> <<"Compartment ", data.compartment,
                                                 " approved for ", target.username>>,
                                   approval_id |-> id])

revoke_approval(user, approval_id) ==
    /\ ServeAdmin("revoke_approval", user, [approval_id |-> approval_id])
    /\ IF ~require_role(user, {"manager", "admin"})
       THEN /\ resp' = Some(RoleDenied(<<"manager", "admin">>))
            /\ UNCHANGED <<db_users, approvals, audit>>
       ELSE IF approval_id \notin 1..Len(approvals)
       THEN /\ resp' = Some([status |-> 404, detail |-> <<"Approval not found">>])
            /\ UNCHANGED <<db_users, approvals, audit>>
       ELSE LET approval == approvals[approval_id]
                at == FindUser(db_users, approval.user_id)
            IN /\ approvals' = [approvals EXCEPT ![approval_id].status = "REVOKED"]
               /\ db_users' =
                     IF at = None THEN db_users
                     ELSE [db_users EXCEPT ![TheVal(at)].approved_compartments =
                              NotIn(@, <<approval.compartment>>)]
               /\ audit' = Append(audit,
                     log_crud_event(user, "REVOKE_NTK", "approval", Some(approval_id),
                         None, None,
                         Some([target_user |-> IF at = None THEN "unknown"
                                               ELSE db_users[TheVal(at)].username,
                               compartment |-> approval.compartment])))
               /\ resp' = Some([status |-> 200, message |-> <<"Approval revoked">>])

\* the collation of the usernames of the demo realm
UsernameOrder ==
    <<"alice_admin", "bob_analyst", "carol_viewer", "dave_manager", "eve_auditor">>

\* select(User).order_by(User.username)
RECURSIVE OrderByUsername(_, _)
OrderByUsername(users, names) ==
    IF names = <<>> THEN <<>>
    ELSE LET at == {i \in 1..Len(users) : users[i].username = Head(names)}
         IN (IF at = {} THEN <<>> ELSE <<users[CHOOSE i \in at : TRUE]>>)
            \o OrderByUsername(users, Tail(names))

list_users(user) ==
    /\ ServeAdmin("list_users", user, [none |-> TRUE])
    /\ UNCHANGED <<db_users, approvals, audit>>
    /\ IF ~require_role(user, {"manager", "admin"})
       THEN resp' = Some(RoleDenied(<<"manager", "admin">>))
       ELSE LET users == OrderByUsername(db_users, UsernameOrder)
            IN resp' = Some([status |-> 200,
                             users |-> [k \in 1..Len(users) |->
                                [id |-> users[k].id,
                                 username |-> users[k].username,
                                 organization |-> users[k].organization,
                                 clearance_level |-> users[k].clearance_level,
                                 approved_compartments |-> users[k].approved_compartments,
                                 roles |-> users[k].roles,
                                 is_active |-> users[k].is_active]]])

-----------------------------------------------------------------------------
(* routes/audit_routes.py *)
(* Every stored row lies inside the time window of the query.              *)

\* the rows the query selects, newest first
RECURSIVE SelectLogs(_, _)
SelectLogs(rows, query) ==
    IF rows = <<>> THEN <<>>
    ELSE LET log == rows[Len(rows)]
             keep == /\ query.action # None => log.action = TheVal(query.action)
                     /\ query.username # None => log.username = TheVal(query.username)
                     /\ query.was_allowed # None
                           => log.was_allowed = TheVal(query.was_allowed)
         IN (IF keep THEN <<log>> ELSE <<>>)
            \o SelectLogs(SubSeq(rows, 1, Len(rows) - 1), query)

get_audit_logs(user, query) ==
    /\ ServeAdmin("get_audit_logs", user, query)
    /\ UNCHANGED <<db_users, approvals, audit>>
    /\ IF ~require_role(user, {"auditor", "admin"})
       THEN resp' = Some(RoleDenied(<<"auditor", "admin">>))
       ELSE LET selected == SelectLogs(audit, query)
                last == IF query.offset + query.limit < Len(selected)
                        THEN query.offset + query.limit ELSE Len(selected)
                logs == SubSeq(selected, query.offset + 1, last)
            IN resp' = Some([status |-> 200,
                             total |-> Len(selected),
                             offset |-> query.offset,
                             limit |-> query.limit,
                             logs |-> [k \in 1..Len(logs) |->
                                [username |-> logs[k].username,
                                 organization |-> logs[k].organization,
                                 user_clearance |-> logs[k].user_clearance,
                                 action |-> logs[k].action,
                                 resource_type |-> logs[k].resource_type,
                                 resource_id |-> logs[k].resource_id,
                                 record_title |-> logs[k].record_title,
                                 field_name |-> logs[k].field_name,
                                 classification_required |-> logs[k].classification_required,
                                 compartments_required |-> logs[k].compartments_required,
                                 was_allowed |-> logs[k].was_allowed,
                                 denial_reason |-> logs[k].denial_reason]]])

-----------------------------------------------------------------------------
(* The records API: the store after the demo seed, then requests *)

\* the store the setup script leaves: two of its records, two cells each
SeedRecords ==
    <<[id |-> 1, title |-> "Asset Intelligence Brief",
       record_classification |-> "SECRET", is_deleted |-> FALSE,
       created_by |-> Some(UserId("kc-alice")), updated_by |-> None,
       cells |-> <<[id |-> <<1, 1>>, field_name |-> "title",
                    field_value |-> "Q4 Regional Intelligence Summary",
                    cell_classification |-> "UNCLASSIFIED", compartments |-> <<>>],
                   [id |-> <<1, 2>>, field_name |-> "asset_status",
                    field_value |-> "Asset BLUE-7 operational",
                    cell_classification |-> "SECRET",
                    compartments |-> <<"PROJECT_OMEGA">>]>>],
      [id |-> 2, title |-> "Project Cipher",
       record_classification |-> "TOP_SECRET", is_deleted |-> FALSE,
       created_by |-> Some(UserId("kc-alice")), updated_by |-> None,
       cells |-> <<[id |-> <<2, 1>>, field_name |-> "title",
                    field_value |-> "Project Cipher - Next Generation",
                    cell_classification |-> "CONFIDENTIAL", compartments |-> <<>>],
                   [id |-> <<2, 2>>, field_name |-> "asset_status",
                    field_value |-> "Phase 2 - Controlled Environment Testing",
                    cell_classification |-> "TOP_SECRET",
                    compartments |-> <<"PROJECT_ALPHA", "PROJECT_OMEGA">>]>>]>>

\* the users the setup script inserts; dave_manager has not logged in yet
SeedUsers ==
    <<UserRow(CHOOSE u \in Principals : u.username = "alice_admin"),
      UserRow(CHOOSE u \in Principals : u.username = "carol_viewer")>>

\* the approvals the setup script inserts: one per compartment of each user
SeedApprovals ==
    <<[id |-> 1, user_id |-> UserId("kc-alice"), compartment |-> "PROJECT_ALPHA",
       approved_by |-> Some(UserId("kc-alice")), status |-> "ACTIVE"],
      [id |-> 2, user_id |-> UserId("kc-alice"), compartment |-> "PROJECT_OMEGA",
       approved_by |-> Some(UserId("kc-alice")), status |-> "ACTIVE"],
      [id |-> 3, user_id |-> UserId("kc-carol"), compartment |-> "PROJECT_ALPHA",
       approved_by |-> Some(UserId("kc-alice")), status |-> "ACTIVE"]>>

\* request bodies of POST /api/records
CreateBodies ==
    [title : {"Field Report"},
     record_classification : {"CONFIDENTIAL", "TOP_SECRET"},
     cells : {<<>>,
              <<[field_name |-> "title", field_value |-> "v_title",
                 cell_classification |-> "UNCLASSIFIED", compartments |-> <<>>],
                [field_name |-> "asset_status", field_value |-> "v_asset_status",
                 cell_classification |-> "SECRET",
                 compartments |-> <<"PROJECT_OMEGA">>]>>}]

\* request bodies of PUT /api/records/{id}; the first names one field twice
UpdateBodies ==
    {[title |-> None, record_classification |-> None,
      cells |-> Some(<<[field_name |-> "title", field_value |-> None,
                        cell_classification |-> Some("TOP_SECRET"),
                        compartments |-> None],
                       [field_name |-> "title", field_value |-> Some("v_changed"),
                        cell_classification |-> None, compartments |-> None]>>)]}
    \cup
    [title : {None},
     record_classification : {None, Some("TOP_SECRET")},
     cells : {None,
              Some(<<[field_name |-> "asset_status", field_value |-> Some("v_changed"),
                      cell_classification |-> Some("UNCLASSIFIED"),
                      compartments |-> Some(<<>>)]>>),
              Some(<<[field_name |-> "title", field_value |-> Some("v_changed"),
                      cell_classification |-> None, compartments |-> None],
                     [field_name |-> "asset_status", field_value |-> Some("v_changed"),
                      cell_classification |-> None, compartments |-> None]>>)}]

\* the ids a request may name: every stored record and one id not stored
RecordIds == 1..(Len(records) + 1)

Init ==
    /\ records = SeedRecords
    /\ db_users = SeedUsers
    /\ approvals = SeedApprovals
    /\ audit = <<>>
    /\ nreq = 0
    /\ req = None
    /\ mark = 0
    /\ resp = None
    /\ AuthIdle
    /\ eng_call = "none"
    /\ eng_user = [clearance_level |-> "UNCLASSIFIED", compartments |-> <<>>]
    /\ eng_class = "UNCLASSIFIED"
    /\ eng_cells = <<>>
    /\ eng_ret = None

Next ==
    \/ \E user \in Principals : list_records(user)
    \/ \E user \in Principals, record_id \in RecordIds : get_record(user, record_id)
    \/ \E user \in Principals, data \in CreateBodies : create_record(user, data)
    \/ \E user \in Principals, record_id \in RecordIds, data \in UpdateBodies :
            update_record(user, record_id, data)
    \/ \E user \in Principals, record_id \in RecordIds : delete_record(user, record_id)

Spec == Init /\ [][Next]_vars

-----------------------------------------------------------------------------
(* The records API and the admin API together, on narrower request sets *)

\* the user ids a request may name: a stored user and an id not stored
TargetIds == {UserId("kc-carol"), UserId("kc-nobody")}

\* request bodies of PUT /api/admin/users/{id}
UserUpdateBodies ==
    {[clearance_level |-> Some("SECRET"), is_active |-> None],
     [clearance_level |-> None, is_active |-> Some(FALSE)]}

\* request bodies of POST /api/admin/approvals
ApprovalBodies == [user_id : TargetIds, compartment : Compartments]

ApprovalIds == 1..(Len(approvals) + 1)

AdminCreateBody ==
    [title |-> "Field Report", record_classification |-> "CONFIDENTIAL", cells |-> <<>>]

AdminUpdateBody ==
    [title |-> None, record_classification |-> None,
     cells |-> Some(<<[field_name |-> "title", field_value |-> Some("v_changed"),
                       cell_classification |-> None, compartments |-> None]>>)]

NextAdmin ==
    \/ \E user \in Principals : list_records(user)
    \/ \E user \in Principals : get_record(user, 1)
    \/ \E user \in Principals : create_record(user, AdminCreateBody)
    \/ \E user \in Principals : update_record(user, 1, AdminUpdateBody)
    \/ \E user \in Principals : delete_record(user, 1)
    \/ \E user \in Principals, user_id \in TargetIds, data \in UserUpdateBodies :
            update_user(user, user_id, data)
    \/ \E user \in Principals, data \in ApprovalBodies : create_approval(user, data)
    \/ \E user \in Principals, approval_id \in ApprovalIds :
            revoke_approval(user, approval_id)

SpecAdmin == Init /\ [][NextAdmin]_vars

-----------------------------------------------------------------------------
(* The role-protected endpoints under every kind of caller *)

\* the principals of the records API and two more of the demo realm: a
\* caller who is only an analyst and an auditor who is not an admin
RolePrincipals ==
    Principals \cup
    {[keycloak_id |-> "kc-bob", username |-> "bob_analyst",
      organization |-> "Agency Alpha", clearance_level |-> "SECRET",
      compartments |-> <<"PROJECT_ALPHA", "PROJECT_OMEGA">>,
      roles |-> <<"analyst">>],
     [keycloak_id |-> "kc-eve", username |-> "eve_auditor",
      organization |-> "Agency Alpha", clearance_level |-> "TOP_SECRET",
      compartments |-> <<"PROJECT_ALPHA", "PROJECT_OMEGA">>,
      roles |-> <<"auditor", "viewer">>]}

\* query strings of GET /api/audit/logs (limit and offset at their defaults)
AuditQueries ==
    [action : {None}, username : {None, Some("dave_manager")},
     was_allowed : {None, Some(FALSE)}, limit : {100}, offset : {0}]

NextRoles ==
    \/ \E user \in RolePrincipals : list_users(user)
    \/ \E user \in RolePrincipals, query \in AuditQueries : get_audit_logs(user, query)
    \/ \E user \in RolePrincipals : create_record(user, AdminCreateBody)
    \/ \E user \in RolePrincipals : update_record(user, 1, AdminUpdateBody)
    \/ \E user \in RolePrincipals : delete_record(user, 1)
    \/ \E user \in RolePrincipals, data \in UserUpdateBodies :
            update_user(user, UserId("kc-carol"), data)
    \/ \E user \in RolePrincipals, data \in ApprovalBodies : create_approval(user, data)
    \/ \E user \in RolePrincipals, approval_id \in ApprovalIds :
            revoke_approval(user, approval_id)

SpecRoles == Init /\ [][NextRoles]_vars

-----------------------------------------------------------------------------
(* Idle state of the records API (used while the engine is exercised alone) *)

ApiIdle ==
    /\ records = <<>>
    /\ db_users = <<>>
    /\ approvals = <<>>
    /\ audit = <<>>
    /\ nreq = 0
    /\ req = None
    /\ mark = 0
    /\ resp = None
    /\ AuthIdle

-----------------------------------------------------------------------------
(* The two signing-key caches under concurrent requests, a clock, a key    *)
(* rotation and a Keycloak that may fail to answer                         *)

\* the user_id query parameter of GET /api/me
DemoQueries == {"alpha-admin"}

\* both services just started: nothing cached, no request served
InitKeys ==
    /\ ApiIdle
    /\ eng_call = "none"
    /\ eng_user = [clearance_level |-> "UNCLASSIFIED", compartments |-> <<>>]
    /\ eng_class = "UNCLASSIFIED"
    /\ eng_cells = <<>>
    /\ eng_ret = None

\* time passes: one time-to-live
Tick ==
    /\ clock < (2 + MaxTicks) * JWKS_CACHE_TTL
    /\ clock' = clock + JWKS_CACHE_TTL
    /\ UNCHANGED <<keycloak, _jwks_cache, _jwks_cache_time, search_jwks_cache, calls>>
    /\ UNCHANGED engine_vars
    /\ UNCHANGED store_vars

\* Keycloak rotates its signing key
Rotate ==
    /\ keycloak = FirstKeys
    /\ keycloak' = RotatedKeys
    /\ UNCHANGED <<clock, _jwks_cache, _jwks_cache_time, search_jwks_cache, calls>>
    /\ UNCHANGED engine_vars
    /\ UNCHANGED store_vars

NextKeys ==
    \/ Tick
    \/ Rotate
    \/ \E c \in 1..MaxCalls, token \in Tokens : decode_token(c, token)
    \/ \E c \in 1..MaxCalls : get_jwks_returns(c)
    \/ \E c \in 1..MaxCalls, token \in Tokens, user_id \in DemoQueries :
            get_current_user_profile(c, token, user_id)
    \/ \E c \in 1..MaxCalls : fetch_jwks_returns(c)

SpecKeys == InitKeys /\ [][NextKeys]_vars

-----------------------------------------------------------------------------
(* routes/admin.py: create_approval as a coroutine. Every request has its  *)
(* own database session; a select sees the rows committed when it runs,    *)
(* and the rows a session changed reach the tables at its commit.          *)

\* the managers and viewers who post grants
GrantCallers == {u \in Principals : u.username \in {"dave_manager", "carol_viewer"}}

\* the locals of a create_approval that has just been entered
GrantCall(user, data) ==
    [app |-> "backend", op |-> "create_approval", pc |-> "select_target",
     user |-> user, data |-> data, target |-> None, dirty |-> FALSE,
     approver |-> None, approval_id |-> None, result |-> None]

\* the coroutine ends with a response
GrantDone(call, result) == [call EXCEPT !.pc = "done", !.result = Some(result)]

\* the dependencies are resolved and the handler runs up to its first select
create_approval_starts(c, user, data) ==
    /\ calls[c].pc = "idle"
    /\ \A d \in 1..(c - 1) : calls[d].pc # "idle"
    /\ IF ~require_role(user, {"manager", "admin"})
       THEN LET denied == RoleDenied(<<"manager", "admin">>)
            IN /\ calls' = [calls EXCEPT ![c] = GrantDone(GrantCall(user, data), denied)]
               /\ resp' = Some(denied)
       ELSE /\ calls' = [calls EXCEPT ![c] = GrantCall(user, data)]
            /\ UNCHANGED resp
    /\ UNCHANGED <<records, db_users, approvals, audit, nreq, req, mark>>
    /\ UNCHANGED <<clock, keycloak, _jwks_cache, _jwks_cache_time, search_jwks_cache>>
    /\ UNCHANGED engine_vars

\* select(User).where(User.id == data.user_id) returns
select_target_returns(c) ==
    LET call == calls[c]
        at == FindUser(db_users, call.data.user_id)
    IN /\ call.pc = "select_target"
       /\ IF at = None
          THEN /\ calls' = [calls EXCEPT ![c] = GrantDone(call, UserNotFound)]
               /\ resp' = Some(UserNotFound)
          ELSE /\ calls' = [calls EXCEPT ![c].pc = "select_approver",
                                         ![c].target = Some(db_users[TheVal(at)])]
               /\ UNCHANGED resp
       /\ UNCHANGED <<records, db_users, approvals, audit, nreq, req, mark>>
       /\ UNCHANGED <<clock, keycloak, _jwks_cache, _jwks_cache_time, search_jwks_cache>>
       /\ UNCHANGED engine_vars

\* select(User).where(User.keycloak_id == user.keycloak_id) returns
select_approver_returns(c) ==
    LET call == calls[c]
    IN /\ call.pc = "select_approver"
       /\ calls' = [calls EXCEPT ![c].pc = "select_existing",
                                 ![c].approver =
                                     IF HasRow(db_users, call.user.keycloak_id)
                                     THEN Some(UserId(call.user.keycloak_id)) ELSE None]
       /\ UNCHANGED store_vars
       /\ UNCHANGED <<clock, keycloak, _jwks_cache, _jwks_cache_time, search_jwks_cache>>
       /\ UNCHANGED engine_vars

\* the select of the approvals of the pair returns; when there is none the
\* session takes the new row and the new compartment list of the target,
\* and the commit is awaited
select_existing_returns(c) ==
    LET call == calls[c]
        data == call.data
        target == TheVal(call.target)
        conflict == [status |-> 409,
                     detail |-> <<"User already has approval for ", data.compartment>>]
    IN /\ call.pc = "select_existing"
       /\ IF ExistingApproval(approvals, data.user_id, data.compartment)
          THEN /\ calls' = [calls EXCEPT ![c] = GrantDone(call, conflict)]
               /\ resp' = Some(conflict)
          ELSE /\ calls' = [calls EXCEPT
                    ![c].pc = "commit",
                    ![c].dirty = ~Contains(target.approved_compartments,
                                           data.compartment),
                    ![c].target = Some([target EXCEPT !.approved_compartments =
                        IF Contains(@, data.compartment) THEN @
                        ELSE Append(@, data.compartment)])]
               /\ UNCHANGED resp
       /\ UNCHANGED <<records, db_users, approvals, audit, nreq, req, mark>>
       /\ UNCHANGED <<clock, keycloak, _jwks_cache, _jwks_cache_time, search_jwks_cache>>
       /\ UNCHANGED engine_vars

\* db.commit() returns: the row is inserted and the compartment list of the
\* target is written if the session changed it; log_crud_event is awaited
commit_returns(c) ==
    LET call == calls[c]
        data == call.data
        target == TheVal(call.target)
        at == FindUser(db_users, data.user_id)
        id == Len(approvals) + 1
    IN /\ call.pc = "commit"
       /\ approvals' = Append(approvals,
             [id |-> id, user_id |-> data.user_id, compartment |-> data.compartment,
              approved_by |-> call.approver, status |-> "ACTIVE"])
       /\ db_users' =
             IF call.dirty /\ at # None
             THEN [db_users EXCEPT ![TheVal(at)].approved_compartments =
                      target.approved_compartments]
             ELSE db_users
       /\ calls' = [calls EXCEPT ![c].pc = "log_crud_event",
                                 ![c].approval_id = Some(id)]
       /\ UNCHANGED <<records, audit, nreq, req, mark, resp>>
       /\ UNCHANGED <<clock, keycloak, _jwks_cache, _jwks_cache_time, search_jwks_cache>>
       /\ UNCHANGED engine_vars

\* log_crud_event returns and the handler returns its message
log_crud_event_returns(c) ==
    LET call == calls[c]
        data == call.data
        target == TheVal(call.target)
        id == TheVal(call.approval_id)
        granted == [status |-> 200,
                    message |-> <<"Compartment ", data.compartment,
                                  " approved for ", target.username>>,
                    approval_id |-> id]
    IN /\ call.pc = "log_crud_event"
       /\ audit' = Append(audit,
             log_crud_event(call.user, "GRANT_NTK", "approval", Some(id), None, None,
                 Some([target_user |-> target.username,
                       compartment |-> data.compartment])))
       /\ calls' = [calls EXCEPT ![c] = GrantDone(call, granted)]
       /\ resp' = Some(granted)
       /\ UNCHANGED <<records, db_users, approvals, nreq, req, mark>>
       /\ UNCHANGED <<clock, keycloak, _jwks_cache, _jwks_cache_time, search_jwks_cache>>
       /\ UNCHANGED engine_vars

NextGrants ==
    \/ \E c \in 1..MaxCalls, user \in GrantCallers, data \in ApprovalBodies :
            create_approval_starts(c, user, data)
    \/ \E c \in 1..MaxCalls : select_target_returns(c)
    \/ \E c \in 1..MaxCalls : select_approver_returns(c)
    \/ \E c \in 1..MaxCalls : select_existing_returns(c)
    \/ \E c \in 1..MaxCalls : commit_returns(c)
    \/ \E c \in 1..MaxCalls : log_crud_event_returns(c)

SpecGrants == Init /\ [][NextGrants]_vars

-----------------------------------------------------------------------------
(* The decision engine exercised on every input of the bounded domains:    *)
(* the initial state holds the arguments of one call, the action returns.  *)

EngineCalls ==
    {"can_access_classification", "check_record_access",
     "check_cell_access", "filter_record_cells"}

\* the attributes of a CurrentUser the engine reads
EngineUsers == [clearance_level : LevelStrings, compartments : CompLists]

InitEngine ==
    /\ eng_call \in EngineCalls
    /\ eng_user \in EngineUsers
    /\ eng_class \in (IF eng_call \in {"can_access_classification", "check_record_access"}
                      THEN LevelStrings ELSE {"UNCLASSIFIED"})
    /\ eng_cells \in (CASE eng_call = "check_cell_access" -> CellListsOfLen(1)
                        [] eng_call = "filter_record_cells" -> CellLists
                        [] OTHER -> {<<>>})
    /\ eng_ret = None
    /\ ApiIdle

Call_can_access_classification ==
    /\ eng_call = "can_access_classification"
    /\ eng_ret = None
    /\ eng_ret' = Some(can_access_classification(eng_user.clearance_level, eng_class))
    /\ UNCHANGED <<eng_call, eng_user, eng_class, eng_cells>>
    /\ UNCHANGED api_vars

Call_check_record_access ==
    /\ eng_call = "check_record_access"
    /\ eng_ret = None
    /\ eng_ret' = Some(check_record_access(eng_user, eng_class))
    /\ UNCHANGED <<eng_call, eng_user, eng_class, eng_cells>>
    /\ UNCHANGED api_vars

Call_check_cell_access ==
    /\ eng_call = "check_cell_access"
    /\ eng_ret = None
    /\ eng_ret' = Some(check_cell_access(eng_user, eng_cells[1].cell_classification,
                                         eng_cells[1].compartments))
    /\ UNCHANGED <<eng_call, eng_user, eng_class, eng_cells>>
    /\ UNCHANGED api_vars

Call_filter_record_cells ==
    /\ eng_call = "filter_record_cells"
    /\ eng_ret = None
    /\ eng_ret' = Some(filter_record_cells(eng_user, eng_cells))
    /\ UNCHANGED <<eng_call, eng_user, eng_class, eng_cells>>
    /\ UNCHANGED api_vars

NextEngine ==
    \/ Call_can_access_classification
    \/ Call_check_record_access
    \/ Call_check_cell_access
    \/ Call_filter_record_cells

SpecEngine == InitEngine /\ [][NextEngine]_vars

Returned(fn) == eng_call = fn /\ eng_ret # None

-----------------------------------------------------------------------------
(* The batch writer exercised alone, with a commit that may fail: the       *)
(* initial state holds the arguments of one call.                           *)

BatchRecordId == 1
BatchRecordTitle == "Asset Intelligence Brief"

\* the access log the read handlers hand to the batch writer
BatchLog == filter_record_cells(eng_user, eng_cells).access_log

InitBatch ==
    /\ eng_call = "log_cell_access_batch"
    /\ eng_user \in Principals
    /\ eng_class = "UNCLASSIFIED"
    /\ eng_cells \in CellLists
    /\ eng_ret = None
    /\ ApiIdle

Call_log_cell_access_batch ==
    /\ eng_call = "log_cell_access_batch"
    /\ eng_ret = None
    /\ \E fail_at \in 0..Len(BatchLog) :
          LET done == log_cell_access_batch_failing(eng_user, BatchRecordId,
                          BatchRecordTitle, BatchLog, fail_at)
          IN /\ audit' = audit \o done.rows
             /\ eng_ret' = Some(done.outcome)
    /\ UNCHANGED <<eng_call, eng_user, eng_class, eng_cells>>
    /\ UNCHANGED <<records, db_users, approvals, nreq, req, mark, resp>>
    /\ UNCHANGED auth_vars

NextBatch == Call_log_cell_access_batch

SpecBatch == InitBatch /\ [][NextBatch]_vars

-----------------------------------------------------------------------------
(* search-app/main.py: query builders and field masking *)
(* A query is a tree of clauses [kind |-> ...]; a dict kept in insertion   *)
(* order is a sequence of entries.                                         *)

CLASSIFICATION_HIERARCHY ==
    <<[c |-> "UNCLASSIFIED", v |-> 0], [c |-> "CONFIDENTIAL", v |-> 1],
      [c |-> "SECRET", v |-> 2], [c |-> "TOP_SECRET", v |-> 3]>>

\* CLASSIFICATION_HIERARCHY.get(clearance, default)
HierarchyGet(clearance, default) ==
    IF \E i \in 1..Len(CLASSIFICATION_HIERARCHY) : CLASSIFICATION_HIERARCHY[i].c = clearance
    THEN CLASSIFICATION_HIERARCHY[CHOOSE i \in 1..Len(CLASSIFICATION_HIERARCHY) :
                                      CLASSIFICATION_HIERARCHY[i].c = clearance].v
    ELSE default

\* the levels at or below a ceiling, in dict order
LevelsUpTo(ceiling) ==
    LET below == SelectSeq(CLASSIFICATION_HIERARCHY, LAMBDA e : e.v <= ceiling)
    IN [i \in 1..Len(below) |-> below[i].c]

allowed_classifications(clearance) ==
    LevelsUpTo(HierarchyGet(clearance, 0))

Term(field, value) == [kind |-> "term", field |-> field, value |-> value]
Terms(field, values) == [kind |-> "terms", field |-> field, values |-> values]

\* {"bool": {"should": should, "minimum_should_match": 1}}
ShouldOne(should) ==
    [kind |-> "bool", must |-> <<>>, filter |-> <<>>, must_not |-> <<>>,
     should |-> should, minimum_should_match |-> 1]

\* {"bool": {"must_not": must_not}}
MustNot(must_not) ==
    [kind |-> "bool", must |-> <<>>, filter |-> <<>>, must_not |-> must_not,
     should |-> <<>>, minimum_should_match |-> 0]

\* {"bool": {"must": must, "filter": filter}}
MustFilter(must, filter) ==
    [kind |-> "bool", must |-> must, filter |-> filter, must_not |-> <<>>,
     should |-> <<>>, minimum_should_match |-> 0]

\* search_text.strip() is empty for "" only among SearchTexts
_text_query(search_text) ==
    IF search_text # ""
    THEN [kind |-> "multi_match", query |-> search_text,
          fields |-> <<"title^3", "content", "author", "location", "department">>]
    ELSE [kind |-> "match_all"]

_org_filter(org) ==
    ShouldOne(<<Term("organization", org), Term("shared_with", "all"),
                Term("shared_with", org)>>)

build_rbac_query(search_text, user) ==
    MustFilter(<<_text_query(search_text)>>,
               <<Terms("classification", allowed_classifications(user.clearance)),
                 _org_filter(user.organization)>>)

\* [{"term": {field: x}} for x in list]
TermEach(field, list) == [i \in 1..Len(list) |-> Term(field, list[i])]

\* a builder that leaves out the wildcard clause
build_cell_query_no_wildcard(search_text, user) ==
    MustFilter(<<_text_query(search_text)>>,
               <<Terms("classification", allowed_classifications(user.clearance)),
                 _org_filter(user.organization),
                 ShouldOne(TermEach("cell_access", user.cell_memberships))>>)

build_cell_query(search_text, user) ==
    LET cell_should == <<Term("cell_access", "all")>>
                        \o TermEach("cell_access", user.cell_memberships)
    IN MustFilter(<<_text_query(search_text)>>,
                  <<Terms("classification", allowed_classifications(user.clearance)),
                    _org_filter(user.organization),
                    ShouldOne(cell_should)>>)

\* a builder that leaves out the ntk_users clause
build_ntk_query_no_users(search_text, user) ==
    LET cell_should == <<Term("cell_access", "all")>>
                        \o TermEach("cell_access", user.cell_memberships)
        ntk_should == <<MustNot(<<Term("ntk_required", TRUE)>>)>>
                       \o TermEach("ntk_compartments", user.compartments)
    IN MustFilter(<<_text_query(search_text)>>,
                  <<Terms("classification", allowed_classifications(user.clearance)),
                    _org_filter(user.organization),
                    ShouldOne(cell_should),
                    ShouldOne(ntk_should)>>)

build_ntk_query(search_text, user) ==
    LET cell_should == <<Term("cell_access", "all")>>
                        \o TermEach("cell_access", user.cell_memberships)
        ntk_should == <<MustNot(<<Term("ntk_required", TRUE)>>),
                        Term("ntk_users", user.username)>>
                       \o TermEach("ntk_compartments", user.compartments)
    IN MustFilter(<<_text_query(search_text)>>,
                  <<Terms("classification", allowed_classifications(user.clearance)),
                    _org_filter(user.organization),
                    ShouldOne(cell_should),
                    ShouldOne(ntk_should)>>)

\* the keyword fields of the index that hold a list
ListFields == {"shared_with", "cell_access", "ntk_users", "ntk_compartments"}

\* a term clause on a document: equality, or membership for a list field
TermMatches(doc, field, value) ==
    IF field \in ListFields THEN Contains(doc[field], value) ELSE doc[field] = value

\* the index evaluating a clause of the builders on a document
RECURSIVE Matches(_, _)
Matches(q, doc) ==
    CASE q.kind = "match_all" -> TRUE
      [] q.kind = "term" -> TermMatches(doc, q.field, q.value)
      [] q.kind = "terms" ->
            \E i \in 1..Len(q.values) : TermMatches(doc, q.field, q.values[i])
      [] q.kind = "bool" ->
            /\ \A i \in 1..Len(q.must) : Matches(q.must[i], doc)
            /\ \A i \in 1..Len(q.filter) : Matches(q.filter[i], doc)
            /\ \A i \in 1..Len(q.must_not) : ~Matches(q.must_not[i], doc)
            /\ Cardinality({i \in 1..Len(q.should) : Matches(q.should[i], doc)})
                    >= q.minimum_should_match

\* the filter context of a built query on a document
FilterMatches(query, doc) ==
    \A i \in 1..Len(query.filter) : Matches(query.filter[i], doc)

SENSITIVE_FIELDS == <<"source_name", "handler_id", "raw_intel">>

\* the three sentinels (their block characters written as #)
CELL_RESTRICTED == "## CELL RESTRICTED ##"
NTK_RESTRICTED == "## NTK RESTRICTED ##"
SEARCH_REDACTED == "## REDACTED ##"

\* has_cell_access of apply_field_masking for one hit
has_cell_access(src, user) ==
    ListSet(user.cell_memberships) \cap (ListSet(src.cell_access) \ {"all"}) # {}

\* has_ntk_access of apply_field_masking for one hit
has_ntk_access(src, user) ==
    \/ ~src.ntk_required
    \/ user.username \in ListSet(src.ntk_users)
    \/ ListSet(user.compartments) \cap ListSet(src.ntk_compartments) # {}

\* the status apply_field_masking records for one sensitive field
FieldAccess(src, user, mode, field) ==
    IF src[field] = "" THEN "empty"
    ELSE IF mode = "ntk"
    THEN (IF has_cell_access(src, user) /\ has_ntk_access(src, user) THEN "visible"
          ELSE IF ~has_cell_access(src, user) THEN "cell_denied"
          ELSE "ntk_denied")
    ELSE (IF has_cell_access(src, user) THEN "visible" ELSE "redacted")

\* the value apply_field_masking leaves in a field with that status
MaskedValue(value, status) ==
    CASE status = "cell_denied" -> CELL_RESTRICTED
      [] status = "ntk_denied" -> NTK_RESTRICTED
      [] status = "redacted" -> SEARCH_REDACTED
      [] OTHER -> value

\* src["_ntk_status"]
NtkStatus(src, user) ==
    [required |-> src.ntk_required,
     has_access |-> has_ntk_access(src, user),
     reason |-> IF user.username \in ListSet(src.ntk_users) THEN "explicit_user"
                ELSE IF ListSet(user.compartments) \cap ListSet(src.ntk_compartments) # {}
                THEN "compartment_match"
                ELSE IF ~src.ntk_required THEN "not_required" ELSE "denied"]

\* a masking that tests cell access only, in every mode
apply_field_masking_cell_only(hits, user, mode) ==
    [h \in 1..Len(hits) |->
        LET src == hits[h]
            status == [f \in ListSet(SENSITIVE_FIELDS) |->
                          IF src[f] = "" THEN "empty"
                          ELSE IF has_cell_access(src, user) THEN "visible"
                          ELSE IF mode = "ntk" THEN "cell_denied" ELSE "redacted"]
        IN [k \in DOMAIN src |->
                IF k \in ListSet(SENSITIVE_FIELDS) THEN MaskedValue(src[k], status[k])
                ELSE src[k]]
           @@ [_field_access |-> status, _ntk_status |-> NtkStatus(src, user)]]

\* the _source of every hit after apply_field_masking(hits, user, mode)
apply_field_masking(hits, user, mode) ==
    [h \in 1..Len(hits) |->
        LET src == hits[h]
            status == [f \in ListSet(SENSITIVE_FIELDS) |-> FieldAccess(src, user, mode, f)]
        IN [k \in DOMAIN src |->
                IF k \in ListSet(SENSITIVE_FIELDS) THEN MaskedValue(src[k], status[k])
                ELSE src[k]]
           @@ [_field_access |-> status, _ntk_status |-> NtkStatus(src, user)]]

-----------------------------------------------------------------------------
(* The search application exercised on bounded users and documents: the    *)
(* initial state holds the arguments of one call.                          *)

\* longest hit list handed to apply_field_masking
MaxHits == 2

\* the profiles get_user_profile can yield: a clearance claim is any string
SearchUsers ==
    [username : {"alice_admin", "bob_analyst"},
     organization : {"agency-alpha", "agency-bravo"},
     clearance : LevelStrings,
     cell_memberships : {<<>>, <<"cell-hq">>, <<"cell-hq", "cell-west">>},
     compartments : {<<>>, <<"PROJECT_ALPHA">>}]

\* documents of the index, as DocumentUpload validates them
SearchDocs ==
    [classification : Levels,
     organization : {"agency-alpha", "agency-bravo"},
     shared_with : {<<>>, <<"all">>, <<"agency-bravo">>},
     cell_access : {<<>>, <<"all">>, <<"cell-hq">>, <<"all", "cell-west">>},
     ntk_required : BOOLEAN,
     ntk_users : {<<>>, <<"alice_admin">>},
     ntk_compartments : {<<>>, <<"PROJECT_ALPHA">>},
     source_name : {"v_source_name"},
     handler_id : {"v_handler_id"},
     raw_intel : {""}]

SearchTexts == {"", "brief"}

MaskUsers == {u \in SearchUsers : u.clearance = "SECRET" /\ u.organization = "agency-alpha"}

\* the hits of one query: documents of one agency and level
MaskDocs ==
    [classification : {"SECRET"},
     organization : {"agency-alpha"},
     shared_with : {<<>>},
     cell_access : {<<>>, <<"all">>, <<"cell-hq">>, <<"all", "cell-west">>},
     ntk_required : BOOLEAN,
     ntk_users : {<<>>, <<"alice_admin">>},
     ntk_compartments : {<<>>, <<"PROJECT_ALPHA">>},
     source_name : {"", "v_source_name"},
     handler_id : {"v_handler_id"},
     raw_intel : {""}]

\* a hit that follows the first one in a longer page
NextHit ==
    [classification |-> "SECRET", organization |-> "agency-alpha", shared_with |-> <<>>,
     cell_access |-> <<"cell-west">>, ntk_required |-> TRUE, ntk_users |-> <<>>,
     ntk_compartments |-> <<>>, source_name |-> "w_source_name",
     handler_id |-> "", raw_intel |-> "w_raw_intel"]

HitLists ==
    {<<d>> \o [i \in 1..n |-> NextHit] : d \in MaskDocs, n \in 0..(MaxHits - 1)}

BuilderCalls == {"build_rbac_query", "build_cell_query", "build_ntk_query"}

InitSearch ==
    /\ eng_call \in BuilderCalls \cup {"apply_field_masking"}
    /\ eng_user \in (IF eng_call \in BuilderCalls THEN SearchUsers ELSE MaskUsers)
    /\ eng_class \in (IF eng_call \in BuilderCalls THEN SearchTexts ELSE {"cell", "ntk"})
    /\ eng_cells \in (IF eng_call \in BuilderCalls THEN {<<>>} ELSE HitLists)
    /\ eng_ret = None
    /\ ApiIdle

Call_build_rbac_query ==
    /\ eng_call = "build_rbac_query"
    /\ eng_ret = None
    /\ eng_ret' = Some(build_rbac_query(eng_class, eng_user))
    /\ UNCHANGED <<eng_call, eng_user, eng_class, eng_cells>>
    /\ UNCHANGED api_vars

Call_build_cell_query ==
    /\ eng_call = "build_cell_query"
    /\ eng_ret = None
    /\ eng_ret' = Some(build_cell_query(eng_class, eng_user))
    /\ UNCHANGED <<eng_call, eng_user, eng_class, eng_cells>>
    /\ UNCHANGED api_vars

Call_build_ntk_query ==
    /\ eng_call = "build_ntk_query"
    /\ eng_ret = None
    /\ eng_ret' = Some(build_ntk_query(eng_class, eng_user))
    /\ UNCHANGED <<eng_call, eng_user, eng_class, eng_cells>>
    /\ UNCHANGED api_vars

Call_apply_field_masking ==
    /\ eng_call = "apply_field_masking"
    /\ eng_ret = None
    /\ eng_ret' = Some(apply_field_masking(eng_cells, eng_user, eng_class))
    /\ UNCHANGED <<eng_call, eng_user, eng_class, eng_cells>>
    /\ UNCHANGED api_vars

NextSearch ==
    \/ Call_build_rbac_query
    \/ Call_build_cell_query
    \/ Call_build_ntk_query
    \/ Call_apply_field_masking

SpecSearch == InitSearch /\ [][NextSearch]_vars

-----------------------------------------------------------------------------
(* backend/app/search.py: document retrieval and field masking *)
(* A document is the hit [_source |-> source]; field_security is a dict in *)
(* insertion order, a sequence of [field_name, classification,             *)
(* compartments] entries.                                                  *)

CLEARANCE_MAP ==
    <<[k |-> "UNCLASSIFIED", v |-> 0], [k |-> "CONFIDENTIAL", v |-> 1],
      [k |-> "SECRET", v |-> 2], [k |-> "TOP_SECRET", v |-> 3]>>

\* CLEARANCE_MAP.get(level, ClearanceLevel.UNCLASSIFIED)
ClearanceMapGet(level) ==
    IF \E i \in 1..Len(CLEARANCE_MAP) : CLEARANCE_MAP[i].k = level
    THEN CLEARANCE_MAP[CHOOSE i \in 1..Len(CLEARANCE_MAP) : CLEARANCE_MAP[i].k = level].v
    ELSE 0

\* str.upper() on the clearance strings of the domain
Upper(str) ==
    CASE str = "secret" -> "SECRET"
      [] OTHER -> str

\* CLEARANCE_MAP.get((user.get("clearance_level") or "UNCLASSIFIED").upper(), ...)
UserClearance(user) ==
    ClearanceMapGet(Upper(IF user.clearance_level = "" THEN "UNCLASSIFIED"
                          ELSE user.clearance_level))

\* should_mask for one entry of field_security
ShouldMask(security, user) ==
    \/ ClearanceMapGet(security.classification) > UserClearance(user)
    \/ /\ security.compartments # <<>>
       /\ ~(ListSet(security.compartments) \subseteq ListSet(user.compartments))

\* source after the first n entries of field_security
RECURSIVE MaskSource(_, _, _, _)
MaskSource(source, field_security, user, n) ==
    IF n = 0 THEN source
    ELSE LET before == MaskSource(source, field_security, user, n - 1)
             security == field_security[n]
         IN IF ShouldMask(security, user) /\ security.field_name \in DOMAIN before
            THEN [before EXCEPT ![security.field_name] = REDACTED]
            ELSE before

\* masked_fields after the entries of field_security
RECURSIVE MaskedFields(_, _, _)
MaskedFields(source, field_security, user) ==
    IF field_security = <<>> THEN <<>>
    ELSE (IF ShouldMask(Head(field_security), user)
             /\ Head(field_security).field_name \in DOMAIN source
          THEN <<Head(field_security).field_name>> ELSE <<>>)
         \o MaskedFields(source, Tail(field_security), user)

apply_cell_level_security(doc, user) ==
    LET field_security == doc._source.field_security
    IN [filtered_doc |->
            [doc EXCEPT !._source =
                MaskSource(doc._source, field_security, user, Len(field_security))],
        masked_fields |-> MaskedFields(doc._source, field_security, user)]

\* get_document once client.get returned the document
get_document(response, user) ==
    LET source == response._source
    IN IF ClearanceMapGet(source.classification) > UserClearance(user)
       THEN [status |-> 403,
             detail |-> <<"Access denied: Document requires ", source.classification,
                          " clearance">>]
       ELSE IF /\ source.compartments # <<>>
               /\ ~(ListSet(source.compartments) \subseteq ListSet(user.compartments))
       THEN [status |-> 403, detail |-> <<"Access denied: Missing compartment access">>]
       ELSE LET done == apply_cell_level_security(response, user)
            IN [status |-> 200,
                document |-> done.filtered_doc._source,
                masked_fields |-> done.masked_fields]

\* [level.name for level in ClearanceLevel if level <= user_clearance]
AllowedClassifications(user_clearance) ==
    LET below == SelectSeq(CLEARANCE_MAP, LAMBDA e : e.v <= user_clearance)
    IN [i \in 1..Len(below) |-> below[i].k]

\* the filters of the OpenSearch query: a terms clause on the classification
\* and a bool clause on the compartments
build_security_filter(user) ==
    LET user_clearance == UserClearance(user)
        user_compartments == user.compartments
        should == <<[clause |-> "must_not_exists"], [clause |-> "term_empty"]>>
        script == [clause |-> "script", userCompartments |-> user_compartments]
    IN <<[terms |-> AllowedClassifications(user_clearance)],
         [should |-> IF user_compartments # <<>> THEN Append(should, script)
                     ELSE should,
          minimum_should_match |-> 1]>>

\* OpenSearch, on one clause of the compartment filter: an empty array is a
\* field that does not exist; the script is the one of the source
ShouldClauseMatches(clause, source) ==
    CASE clause.clause = "must_not_exists" -> source.compartments = <<>>
      [] clause.clause = "term_empty" -> source.compartments = <<>>
      [] clause.clause = "script" ->
            \/ Len(source.compartments) = 0
            \/ \A i \in 1..Len(source.compartments) :
                  Contains(clause.userCompartments, source.compartments[i])

\* OpenSearch, on the filters: the document is among the hits of the query
SecurityFilterMatches(filters, source) ==
    /\ Contains(filters[1].terms, source.classification)
    /\ Cardinality({n \in 1..Len(filters[2].should) :
                        ShouldClauseMatches(filters[2].should[n], source)})
          >= filters[2].minimum_should_match

-----------------------------------------------------------------------------
(* The document endpoint exercised on bounded users and documents *)

\* the dict get_user_from_request returns: the claim may be any string
DocUsers ==
    [username : {"carol_viewer"},
     clearance_level : LevelStrings \cup {"secret", ""},
     compartments : {<<>>, <<"PROJECT_ALPHA">>, <<"PROJECT_ALPHA", "PROJECT_OMEGA">>}]

\* field_security of a stored document: no entry, or one for a field of
\* the document (summary) or for a field it does not have (notes)
FieldSecurities ==
    {<<>>} \cup
    {<<e>> : e \in [field_name : {"summary", "notes"},
                    classification : LevelStrings,
                    compartments : {<<>>, <<"PROJECT_OMEGA">>}]}

\* the documents client.get may return: the index validates no level
StoredDocs ==
    {[_source |-> src] :
        src \in [title : {"v_title"},
                 summary : {"v_summary"},
                 classification : LevelStrings,
                 compartments : {<<>>, <<"PROJECT_OMEGA">>},
                 field_security : FieldSecurities]}

InitDocs ==
    /\ eng_call \in {"get_document", "apply_cell_level_security",
                     "build_security_filter"}
    /\ eng_user \in DocUsers
    /\ eng_class = "UNCLASSIFIED"
    /\ eng_cells \in {<<d>> : d \in StoredDocs}
    /\ eng_ret = None
    /\ ApiIdle

Call_get_document ==
    /\ eng_call = "get_document"
    /\ eng_ret = None
    /\ eng_ret' = Some(get_document(eng_cells[1], eng_user))
    /\ UNCHANGED <<eng_call, eng_user, eng_class, eng_cells>>
    /\ UNCHANGED api_vars

Call_apply_cell_level_security ==
    /\ eng_call = "apply_cell_level_security"
    /\ eng_ret = None
    /\ eng_ret' = Some(apply_cell_level_security(eng_cells[1], eng_user))
    /\ UNCHANGED <<eng_call, eng_user, eng_class, eng_cells>>
    /\ UNCHANGED api_vars

\* the filters built for the user and what OpenSearch makes of them for the
\* stored document
Call_build_security_filter ==
    /\ eng_call = "build_security_filter"
    /\ eng_ret = None
    /\ eng_ret' = LET filters == build_security_filter(eng_user)
                  IN Some([filters |-> filters,
                           hit |-> SecurityFilterMatches(filters, eng_cells[1]._source)])
    /\ UNCHANGED <<eng_call, eng_user, eng_class, eng_cells>>
    /\ UNCHANGED api_vars

NextDocs ==
    \/ Call_get_document
    \/ Call_apply_cell_level_security
    \/ Call_build_security_filter

SpecDocs == InitDocs /\ [][NextDocs]_vars

-----------------------------------------------------------------------------
(* Properties of the decision engine *)

\* the order of the four levels, lowest first
LevelOrder == <<"UNCLASSIFIED", "CONFIDENTIAL", "SECRET", "TOP_SECRET">>
Position(level) == CHOOSE i \in 1..Len(LevelOrder) : LevelOrder[i] = level


\* C1: on the four levels can_access_classification(clearance, required) is
\* true iff the clearance is at or above the required level in the order
\* UNCLASSIFIED < CONFIDENTIAL < SECRET < TOP_SECRET, and an allowed decision
\* stays allowed for every higher clearance and every lower required level.
C1_RankOrder ==
    (/\ Returned("can_access_classification")
     /\ eng_user.clearance_level \in Levels
     /\ eng_class \in Levels)
    => /\ TheVal(eng_ret) = (Position(eng_user.clearance_level) >= Position(eng_class))
       /\ TheVal(eng_ret) =>
            \A c2 \in Levels, r2 \in Levels :
                (/\ Position(c2) >= Position(eng_user.clearance_level)
                 /\ Position(r2) <= Position(eng_class))
                => can_access_classification(c2, r2)

C1_Witness ==
    /\ Returned("can_access_classification")
    /\ eng_user.clearance_level = "SECRET"
    /\ eng_class = "CONFIDENTIAL"
    /\ eng_ret = Some(TRUE)

NtkDenied(d) == ~d.allowed /\ Contains(d.reason, COMPARTMENT_DENIED)
ClearanceDenied(d) == ~d.allowed /\ Contains(d.reason, CLASSIFICATION_DENIED)

\* C2: check_cell_access checks the classification first: a clearance rank
\* below the cell's rank is denied with exactly INSUFFICIENT_CLEARANCE whatever
\* the compartments are; NEED_TO_KNOW_REQUIRED is reported only when the
\* classification check passed and a required compartment is missing; no
\* denial carries both codes.
C2_CheckOrder ==
    Returned("check_cell_access") =>
        LET d == TheVal(eng_ret)
            cell == eng_cells[1]
        IN /\ clearance_rank(eng_user.clearance_level) < clearance_rank(cell.cell_classification)
                => d = [allowed |-> FALSE, reason |-> <<CLASSIFICATION_DENIED>>]
           /\ NtkDenied(d) =>
                /\ clearance_rank(eng_user.clearance_level)
                       >= clearance_rank(cell.cell_classification)
                /\ \E c \in ListSet(cell.compartments) : c \notin ListSet(eng_user.compartments)
           /\ ~(NtkDenied(d) /\ ClearanceDenied(d))

C2_Witness ==
    /\ Returned("check_cell_access")
    /\ eng_user.clearance_level = "CONFIDENTIAL"
    /\ eng_user.compartments = <<>>
    /\ eng_cells[1].cell_classification = "SECRET"
    /\ eng_cells[1].compartments = <<"PROJECT_OMEGA">>
    /\ eng_ret = Some([allowed |-> FALSE, reason |-> <<CLASSIFICATION_DENIED>>])

\* the required set is non-empty and not fully contained in the principal's set
NotContained(required, held) ==
    ListSet(required) # {} /\ ~(ListSet(required) \subseteq ListSet(held))

\* C3 as stated: check_cell_access denies with NEED_TO_KNOW_REQUIRED iff the
\* required set is non-empty and not fully contained in the principal's set,
\* for every principal.
C3_Original ==
    Returned("check_cell_access") =>
        (NtkDenied(TheVal(eng_ret))
            <=> NotContained(eng_cells[1].compartments, eng_user.compartments))

\* C3 as amended: when the classification check passes, check_cell_access
\* denies with NEED_TO_KNOW_REQUIRED iff the required set is non-empty and not
\* fully contained in the principal's set; when the classification check
\* fails it never reports NEED_TO_KNOW_REQUIRED; with an empty required set it
\* never reports NEED_TO_KNOW_REQUIRED.
C3_AllOf ==
    Returned("check_cell_access") =>
        LET d == TheVal(eng_ret)
            cell == eng_cells[1]
            passes == can_access_classification(eng_user.clearance_level,
                                                cell.cell_classification)
        IN /\ passes => (NtkDenied(d)
                            <=> NotContained(cell.compartments, eng_user.compartments))
           /\ ~passes => ~NtkDenied(d)
           /\ cell.compartments = <<>> => ~NtkDenied(d)

C3_Witness ==
    /\ Returned("check_cell_access")
    /\ eng_user.clearance_level = "SECRET"
    /\ eng_user.compartments = <<"PROJECT_ALPHA">>
    /\ eng_cells[1].cell_classification = "SECRET"
    /\ eng_cells[1].compartments = <<"PROJECT_ALPHA", "PROJECT_OMEGA">>
    /\ eng_ret = Some([allowed |-> FALSE,
                       reason |-> <<COMPARTMENT_DENIED, ": missing [", "PROJECT_OMEGA", "]">>])

\* C4: when the clearance string or the required-level string is not one of
\* the four levels, can_access_classification, check_record_access and
\* check_cell_access deny.
C4_UnknownDenied ==
    /\ (/\ Returned("can_access_classification")
        /\ (eng_user.clearance_level \notin Levels \/ eng_class \notin Levels))
       => eng_ret = Some(FALSE)
    /\ (/\ Returned("check_record_access")
        /\ (eng_user.clearance_level \notin Levels \/ eng_class \notin Levels))
       => ~TheVal(eng_ret).allowed
    /\ (/\ Returned("check_cell_access")
        /\ (\/ eng_user.clearance_level \notin Levels
            \/ eng_cells[1].cell_classification \notin Levels))
       => ~TheVal(eng_ret).allowed

\* C5: in the view filter_record_cells builds, a cell check_cell_access denies
\* has the sentinel as field value and the one-element list holding the
\* sentinel as compartments, neither equal to the cell's original, and
\* accessible = false; an allowed cell has its value and compartments passed
\* through unchanged and accessible = true.
C5_Redaction ==
    Returned("filter_record_cells") =>
        \A i \in 1..Len(eng_cells) :
            LET cell == eng_cells[i]
                view == TheVal(eng_ret).result[i]
                d == check_cell_access(eng_user, cell.cell_classification, cell.compartments)
            IN IF d.allowed
               THEN /\ view.field_value = cell.field_value
                    /\ view.compartments = cell.compartments
                    /\ view.accessible = TRUE
               ELSE /\ view.field_value = REDACTED
                    /\ view.compartments = <<REDACTED>>
                    /\ view.field_value # cell.field_value
                    /\ view.compartments # cell.compartments
                    /\ view.accessible = FALSE

C5_Witness ==
    /\ Returned("filter_record_cells")
    /\ Len(eng_cells) = 2
    /\ eng_cells[2].compartments # <<>>
    /\ TheVal(eng_ret).result[1].accessible
    /\ TheVal(eng_ret).result[1].field_value = eng_cells[1].field_value
    /\ ~TheVal(eng_ret).result[2].accessible
    /\ TheVal(eng_ret).result[2].field_value = REDACTED

\* C7: filter_record_cells returns one audit entry and one view per input
\* cell, in input order: both lists are as long as the input, and the i-th
\* entry and the i-th view carry the i-th cell's field name and decision.
C7_OnePerCell ==
    Returned("filter_record_cells") =>
        LET out == TheVal(eng_ret)
        IN /\ Len(out.access_log) = Len(eng_cells)
           /\ Len(out.result) = Len(eng_cells)
           /\ \A i \in 1..Len(eng_cells) :
                LET d == check_cell_access(eng_user, eng_cells[i].cell_classification,
                                           eng_cells[i].compartments)
                IN /\ i \in DOMAIN out.access_log
                   /\ i \in DOMAIN out.result
                   /\ out.access_log[i].field_name = eng_cells[i].field_name
                   /\ out.access_log[i].was_allowed = d.allowed
                   /\ out.result[i].field_name = eng_cells[i].field_name
                   /\ out.result[i].accessible = d.allowed

C7_Witness ==
    /\ Returned("filter_record_cells")
    /\ Len(eng_cells) = 2
    /\ ~TheVal(eng_ret).access_log[1].was_allowed
    /\ TheVal(eng_ret).access_log[2].was_allowed
    /\ Len(TheVal(eng_ret).result) = 2

-----------------------------------------------------------------------------
(* Properties of the records API and its audit trail *)

\* the audit rows written while serving the last request
RowsOfRequest == SubSeq(audit, mark + 1, Len(audit))

\* the record the last request named, as stored
NamedRecord == records[TheVal(TheVal(req).record_id)]

ReadServed ==
    /\ resp # None
    /\ TheVal(resp).status = 200
    /\ TheVal(req).op \in {"get_record", "list_records"}

\* the record views of the last read response
ViewsReturned ==
    IF TheVal(req).op = "get_record" THEN <<TheVal(resp)>> ELSE TheVal(resp).records

\* C6: in the payload of get_record and list_records, the view of a cell
\* denied on compartments names none of the compartments the principal lacks,
\* in any of its fields.
C6_NoCompartmentLeak ==
    ReadServed =>
        \A k \in 1..Len(ViewsReturned) :
            LET view == ViewsReturned[k]
                stored == records[view.id]
                user == TheVal(req).user
            IN \A i \in 1..Len(view.cells) :
                 LET cv == view.cells[i]
                     missing == ListSet(NotIn(stored.cells[i].compartments,
                                              user.compartments))
                 IN (~cv.accessible /\ missing # {}
                        /\ can_access_classification(user.clearance_level,
                                                     stored.cells[i].cell_classification))
                    => /\ missing \cap ListSet(cv.denial_reason) = {}
                       /\ missing \cap ListSet(cv.compartments) = {}
                       /\ cv.field_value \notin missing

\* a 403 for insufficient clearance (not for a missing role)
ClearanceRefusal(r) ==
    /\ r.status = 403
    /\ \/ Head(r.detail) = "Access denied: "
       \/ r.detail = <<"Cannot create records above your clearance level">>

DenialActions ==
    {"ACCESS_DENIED", "CELL_ACCESS_DENIED", "UPDATE_DENIED", "CELL_UPDATE_DENIED"}

\* C8: whenever the last request returned a clearance or compartment denial
\* (a 403, a record left out of the listing, a redacted cell, a skipped cell
\* update), an audit row for that decision was written while serving it.
C8_DenialAudited ==
    resp # None =>
        LET r == TheVal(resp)
            q == TheVal(req)
            rows == RowsOfRequest
        IN /\ ClearanceRefusal(r) =>
                \E n \in 1..Len(rows) :
                    /\ rows[n].username = q.user.username
                    /\ rows[n].action \in DenialActions
                    /\ q.record_id # None => rows[n].resource_id = q.record_id
           /\ (q.op = "list_records" /\ r.status = 200) =>
                \A id \in 1..Len(records) :
                    (/\ ~records[id].is_deleted
                     /\ \A k \in 1..Len(r.records) : r.records[k].id # id)
                    => \E n \in 1..Len(rows) :
                          /\ rows[n].action = "ACCESS_DENIED"
                          /\ rows[n].resource_id = Some(id)
           /\ ReadServed =>
                \A k \in 1..Len(ViewsReturned) :
                    \A i \in 1..Len(ViewsReturned[k].cells) :
                        ~ViewsReturned[k].cells[i].accessible
                        => \E n \in 1..Len(rows) :
                              /\ rows[n].action = "CELL_ACCESS_DENIED"
                              /\ rows[n].resource_id = Some(ViewsReturned[k].id)
                              /\ rows[n].field_name
                                    = Some(ViewsReturned[k].cells[i].field_name)
           /\ (q.op = "update_record" /\ r.status = 200 /\ TheVal(q.data).cells # None) =>
                \A j \in 1..Len(TheVal(TheVal(q.data).cells)) :
                    LET name == TheVal(TheVal(q.data).cells)[j].field_name
                    IN (/\ FirstCell(NamedRecord.cells, name) # None
                        /\ ~Contains(r.changes, <<"cell:", name>>))
                       => \E n \in 1..Len(rows) :
                             /\ rows[n].action = "CELL_UPDATE_DENIED"
                             /\ rows[n].field_name = Some(name)

\* C9: every audit row written for a denied decision has was_allowed = false
\* and a denial_reason, and every row written for an allowed decision has
\* was_allowed = true and no denial_reason.
C9_DecisionFlags ==
    \A n \in 1..Len(audit) :
        IF audit[n].action \in DenialActions
        THEN ~audit[n].was_allowed /\ audit[n].denial_reason # None
        ELSE audit[n].was_allowed /\ audit[n].denial_reason = None

\* the positions in rows of the record-level rows about record id
RecordRowsAbout(rows, id) ==
    {n \in 1..Len(rows) :
        /\ rows[n].resource_type = "record"
        /\ rows[n].resource_id = Some(id)
        /\ rows[n].action \in {"READ_RECORD", "ACCESS_DENIED"}}

\* the cell-level rows about record id, in the order written
RECURSIVE CellRowsAbout(_, _)
CellRowsAbout(rows, id) ==
    IF rows = <<>> THEN <<>>
    ELSE (IF Head(rows).resource_type = "cell" /\ Head(rows).resource_id = Some(id)
          THEN <<Head(rows)>> ELSE <<>>) \o CellRowsAbout(Tail(rows), id)

\* one record-level row about the record, and, when the principal passes the
\* record-level check, one cell-level row per cell, in cell order
OneEventPerResource(user, record, rows) ==
    /\ Cardinality(RecordRowsAbout(rows, record.id)) = 1
    /\ check_record_access(user, record.record_classification).allowed =>
          LET cellrows == CellRowsAbout(rows, record.id)
          IN /\ Len(cellrows) = Len(record.cells)
             /\ \A i \in 1..Len(record.cells) :
                    i \in DOMAIN cellrows
                    => cellrows[i].field_name = Some(record.cells[i].field_name)

\* C10: a read writes exactly one record-level row for every record it
\* examines (allowed or denied) and, for every record that passes the
\* record-level check, exactly one cell-level row per cell, in cell order.
C10_OneEventPerResource ==
    (resp # None /\ TheVal(req).op \in {"get_record", "list_records"}) =>
        LET q == TheVal(req)
        IN IF q.op = "get_record"
           THEN TheVal(resp).status # 404
                => OneEventPerResource(q.user, NamedRecord, RowsOfRequest)
           ELSE \A id \in 1..Len(records) :
                    ~records[id].is_deleted
                    => OneEventPerResource(q.user, records[id], RowsOfRequest)

-----------------------------------------------------------------------------
(* Properties of update_record and of the order of the two checks *)

\* a step that serves one request
Served == nreq' = nreq + 1

\* the audit rows written by the step
RowsOfStep == SubSeq(audit', Len(audit) + 1, Len(audit'))

\* C11: in list_records, get_record and update_record no cell of a record is
\* evaluated, returned or updated unless check_record_access allowed that
\* record for the requesting principal: a step that serves one of the three
\* writes no cell-level audit row about a record the principal is denied,
\* returns no view of it, and leaves it as stored.
C11_RecordCheckFirst ==
    [][(Served /\ TheVal(req').op \in {"list_records", "get_record", "update_record"}) =>
        LET q == TheVal(req')
            r == TheVal(resp')
        IN \A id \in 1..Len(records) :
             (/\ ~records[id].is_deleted
              /\ ~check_record_access(q.user, records[id].record_classification).allowed)
             => /\ CellRowsAbout(RowsOfStep, id) = <<>>
                /\ records'[id] = records[id]
                /\ q.op = "list_records" =>
                      \A k \in 1..Len(r.records) : r.records[k].id # id
                /\ (q.op # "list_records" /\ q.record_id = Some(id)) => r.status = 403
      ]_vars

\* an update naming cells was refused at the record level
C11_Witness ==
    /\ resp # None
    /\ TheVal(req).op = "update_record"
    /\ TheVal(TheVal(req).data).cells # None
    /\ TheVal(resp).status = 403
    /\ Head(TheVal(resp).detail) = "Access denied: "
    /\ RowsOfRequest # <<>>
    /\ CellRowsAbout(RowsOfRequest, TheVal(TheVal(req).record_id)) = <<>>

\* [u for u in cell_updates if u.field_name == name]
RECURSIVE UpdatesNaming(_, _)
UpdatesNaming(cell_updates, name) ==
    IF cell_updates = <<>> THEN <<>>
    ELSE (IF Head(cell_updates).field_name = name THEN <<Head(cell_updates)>> ELSE <<>>)
         \o UpdatesNaming(Tail(cell_updates), name)

\* a cell with the proposals of one cell update written to it
Applied(cell, u) ==
    [cell EXCEPT
        !.field_value = IF u.field_value # None THEN TheVal(u.field_value) ELSE @,
        !.cell_classification =
            IF u.cell_classification # None THEN TheVal(u.cell_classification) ELSE @,
        !.compartments = IF u.compartments # None THEN TheVal(u.compartments) ELSE @]

\* a cell with every update of ups written to it, in order
RECURSIVE AppliedAll(_, _)
AppliedAll(cell, ups) ==
    IF ups = <<>> THEN cell ELSE AppliedAll(Applied(cell, Head(ups)), Tail(ups))

\* a cell after the updates of ups, each one written iff the principal is
\* allowed on the classification and compartments stored when it is processed
RECURSIVE AppliedWhenAllowed(_, _, _)
AppliedWhenAllowed(user, cell, ups) ==
    IF ups = <<>> THEN cell
    ELSE AppliedWhenAllowed(user,
            IF check_cell_access(user, cell.cell_classification, cell.compartments).allowed
            THEN Applied(cell, Head(ups)) ELSE cell,
            Tail(ups))

\* a step of update_record that reached the cell loop with cell updates
CellLoopRan ==
    /\ Served
    /\ TheVal(req').op = "update_record"
    /\ TheVal(resp').status = 200
    /\ TheVal(TheVal(req').data).cells # None

\* C12 as stated: a cell named by the request is changed by all of the
\* request's updates of it iff check_cell_access allows the principal on the
\* classification and compartments stored before the request, and is left
\* unchanged otherwise.
C12_Original ==
    [][CellLoopRan =>
        LET q == TheVal(req')
            id == TheVal(q.record_id)
            cell_updates == TheVal(TheVal(q.data).cells)
            changes == TheVal(resp').changes
        IN \A i \in 1..Len(records[id].cells) :
             LET existing == records[id].cells[i]
                 ups == UpdatesNaming(cell_updates, existing.field_name)
                 d == check_cell_access(q.user, existing.cell_classification,
                                        existing.compartments)
             IN (FirstCell(records[id].cells, existing.field_name) = Some(i) /\ ups # <<>>)
                => IF d.allowed
                   THEN /\ records'[id].cells[i] = AppliedAll(existing, ups)
                        /\ Contains(changes, <<"cell:", existing.field_name>>)
                   ELSE /\ records'[id].cells[i] = existing
                        /\ ~Contains(changes, <<"cell:", existing.field_name>>)
      ]_vars

\* C12 (amended): each update of an existing cell is applied iff
\* check_cell_access allows the principal on the classification and
\* compartments the cell has stored when that update is processed (the values
\* stored before the request for the first update of a field, the values an
\* earlier applied update of the same request wrote for a later one); the
\* decision does not read the update's own proposals, a cell denied before
\* the request is left unchanged, and the other cells are still processed.
C12_ExistingCellDecides ==
    [][CellLoopRan =>
        LET q == TheVal(req')
            id == TheVal(q.record_id)
            cell_updates == TheVal(TheVal(q.data).cells)
            changes == TheVal(resp').changes
        IN \A i \in 1..Len(records[id].cells) :
             LET existing == records[id].cells[i]
                 ups == UpdatesNaming(cell_updates, existing.field_name)
                 d == check_cell_access(q.user, existing.cell_classification,
                                        existing.compartments)
             IN IF FirstCell(records[id].cells, existing.field_name) = Some(i)
                THEN /\ records'[id].cells[i] = AppliedWhenAllowed(q.user, existing, ups)
                     /\ Contains(changes, <<"cell:", existing.field_name>>)
                            <=> (ups # <<>> /\ d.allowed)
                     /\ ~d.allowed => records'[id].cells[i] = existing
                ELSE records'[id].cells[i] = existing
      ]_vars

\* one update served with a cell changed and another cell's change refused
C12_Witness ==
    /\ resp # None
    /\ TheVal(req).op = "update_record"
    /\ TheVal(resp).status = 200
    /\ Contains(TheVal(resp).changes, <<"cell:", "title">>)
    /\ \E n \in 1..Len(RowsOfRequest) :
          /\ RowsOfRequest[n].action = "CELL_UPDATE_DENIED"
          /\ RowsOfRequest[n].field_name = Some("asset_status")

-----------------------------------------------------------------------------
(* The reason of a record-level denial *)

\* C13: check_record_access allows iff the clearance satisfies the record
\* classification, and the reason of every denial is exactly the code
\* INSUFFICIENT_CLEARANCE.
C13_DenialCode ==
    Returned("check_record_access") =>
        LET r == TheVal(eng_ret)
        IN /\ r.allowed <=> can_access_classification(eng_user.clearance_level, eng_class)
           /\ ~r.allowed => r.reason = <<CLASSIFICATION_DENIED>>

-----------------------------------------------------------------------------
(* The audit trail under the records API and the admin API *)

\* C14: the audit log is append-only under every record and admin operation:
\* each step leaves the rows already stored as they were, in place, and the
\* rows it adds carry the username, organization and clearance of the
\* principal the decision was made for; a later change of the user's stored
\* attributes rewrites none of them.
C14_AppendOnly ==
    [][/\ Len(audit') >= Len(audit)
       /\ SubSeq(audit', 1, Len(audit)) = audit
       /\ Served =>
            \A n \in 1..Len(RowsOfStep) :
                /\ RowsOfStep[n].username = TheVal(req').user.username
                /\ RowsOfStep[n].organization = TheVal(req').user.organization
                /\ RowsOfStep[n].user_clearance = Some(TheVal(req').user.clearance_level)
      ]_vars

\* the clearance of a user was changed after an event about that user was
\* stored with the earlier clearance
C14_Witness ==
    /\ resp # None
    /\ TheVal(req).op = "update_user"
    /\ TheVal(resp).status = 200
    /\ \E n \in 1..mark, i \in 1..Len(db_users) :
          /\ audit[n].username = db_users[i].username
          /\ audit[n].user_clearance # Some(db_users[i].clearance_level)

-----------------------------------------------------------------------------
(* A failing write inside a batch *)

\* C15: when the k-th write of a batch fails, the k-1 rows before it stay
\* persisted, the failure reaches the caller, and what reaches the caller
\* tells which event failed: no other failing position gives the same outcome.
C15_PartialFailure ==
    Returned("log_cell_access_batch") =>
        LET rows == log_cell_access_batch(eng_user, BatchRecordId, BatchRecordTitle,
                                          BatchLog)
            out == TheVal(eng_ret)
        IN /\ Len(audit) <= Len(rows)
           /\ audit = SubSeq(rows, 1, Len(audit))
           /\ out.raised <=> Len(audit) < Len(rows)
           /\ out.raised =>
                \A k \in 1..Len(rows) :
                    k # Len(audit) + 1
                    => log_cell_access_batch_failing(eng_user, BatchRecordId,
                           BatchRecordTitle, BatchLog, k).outcome # out

-----------------------------------------------------------------------------
(* Properties of the search filters and of field masking *)

\* the organization clause of the basic filter
OrgVisible(doc, user) ==
    \/ doc.organization = user.organization
    \/ user.organization \in ListSet(doc.shared_with)
    \/ "all" \in ListSet(doc.shared_with)

\* the cell clause of the compartmented filter
CellVisible(doc, user) ==
    \/ "all" \in ListSet(doc.cell_access)
    \/ ListSet(doc.cell_access) \cap ListSet(user.cell_memberships) # {}

\* the need-to-know clause of the need_to_know filter
NtkVisible(doc, user) ==
    \/ ~doc.ntk_required
    \/ user.username \in ListSet(doc.ntk_users)
    \/ ListSet(user.compartments) \cap ListSet(doc.ntk_compartments) # {}

\* C16: the filter of build_rbac_query matches a document iff the rank of the
\* document's classification is at most the rank of the principal's clearance
\* and the document is of the principal's organization or shared with it or
\* with "all".
C16_BasicFilter ==
    Returned("build_rbac_query") =>
        \A doc \in SearchDocs :
            FilterMatches(TheVal(eng_ret), doc)
            <=> /\ clearance_rank(doc.classification) <= clearance_rank(eng_user.clearance)
                /\ OrgVisible(doc, eng_user)

\* C17: the filter of build_cell_query matches a document iff the basic
\* filter matches it and its cell_access contains "all" or one of the
\* principal's cells; with no cell membership it matches exactly the
\* "all"-tagged documents that pass the basic filter.
C17_CellFilter ==
    Returned("build_cell_query") =>
        \A doc \in SearchDocs :
            LET basic == FilterMatches(build_rbac_query(eng_class, eng_user), doc)
                cell == FilterMatches(TheVal(eng_ret), doc)
            IN /\ cell <=> (basic /\ CellVisible(doc, eng_user))
               /\ eng_user.cell_memberships = <<>>
                    => (cell <=> (basic /\ "all" \in ListSet(doc.cell_access)))

\* a cell query for a principal with no cell membership, which matches an
\* "all"-tagged document and rejects a cell-tagged one that passes the basic
\* filter
C17_Witness ==
    /\ Returned("build_cell_query")
    /\ eng_user.cell_memberships = <<>>
    /\ \E doc \in SearchDocs :
          /\ FilterMatches(TheVal(eng_ret), doc)
          /\ doc.cell_access = <<"all">>
    /\ \E doc \in SearchDocs :
          /\ ~FilterMatches(TheVal(eng_ret), doc)
          /\ FilterMatches(build_rbac_query(eng_class, eng_user), doc)

\* C18: the filter of build_ntk_query matches a document iff the
\* compartmented filter matches it and the document is not flagged
\* ntk_required, or names the principal in ntk_users, or lists a compartment
\* the principal holds in ntk_compartments.
C18_NtkFilter ==
    Returned("build_ntk_query") =>
        \A doc \in SearchDocs :
            FilterMatches(TheVal(eng_ret), doc)
            <=> /\ FilterMatches(build_cell_query(eng_class, eng_user), doc)
                /\ NtkVisible(doc, eng_user)

\* the flagged document of the scenario: it names alice_admin
FlaggedDoc ==
    [classification |-> "SECRET", organization |-> "agency-alpha", shared_with |-> <<>>,
     cell_access |-> <<"cell-hq">>, ntk_required |-> TRUE,
     ntk_users |-> <<"alice_admin">>, ntk_compartments |-> <<>>,
     source_name |-> "v_source_name", handler_id |-> "v_handler_id", raw_intel |-> ""]

\* bob_analyst, cleared and in the cell but not named and with no
\* compartment, is refused the flagged document that alice_admin, named in
\* ntk_users, is given
C18_Witness ==
    /\ Returned("build_ntk_query")
    /\ FlaggedDoc \in SearchDocs
    /\ eng_user.username = "bob_analyst"
    /\ eng_user.compartments = <<>>
    /\ FilterMatches(build_cell_query(eng_class, eng_user), FlaggedDoc)
    /\ ~FilterMatches(TheVal(eng_ret), FlaggedDoc)
    /\ FilterMatches(build_ntk_query(eng_class,
                         [eng_user EXCEPT !.username = "alice_admin"]), FlaggedDoc)

\* the principal's cells overlap the hit's cell_access, "all" left aside
CellOverlap(src, user) ==
    ListSet(user.cell_memberships) \cap (ListSet(src.cell_access) \ {"all"}) # {}

Sentinels == {CELL_RESTRICTED, NTK_RESTRICTED, SEARCH_REDACTED}

\* C19 as stated: a non-empty sensitive field stays visible iff the cell
\* overlap holds (cell mode), and the need-to-know test too (ntk mode);
\* otherwise its value is a sentinel and its status is cell_denied when the
\* cell overlap fails, ntk_denied only when the overlap holds and the
\* need-to-know test fails.
C19_Original ==
    Returned("apply_field_masking") =>
        \A h \in 1..Len(eng_cells) : \A f \in ListSet(SENSITIVE_FIELDS) :
            LET src == eng_cells[h]
                out == TheVal(eng_ret)[h]
                overlap == CellOverlap(src, eng_user)
                ntk == NtkVisible(src, eng_user)
                visible == IF eng_class = "ntk" THEN overlap /\ ntk ELSE overlap
            IN src[f] # "" =>
                 IF visible
                 THEN out._field_access[f] = "visible" /\ out[f] = src[f]
                 ELSE /\ out[f] \in Sentinels
                      /\ ~overlap => out._field_access[f] = "cell_denied"
                      /\ out._field_access[f] = "ntk_denied" <=> (overlap /\ ~ntk)

\* C19 (amended): as stated for the visibility of the field and for the
\* statuses of ntk mode; in cell mode the status of a masked field is
\* redacted, and each status has its own sentinel.
C19_FieldMasking ==
    Returned("apply_field_masking") =>
        \A h \in 1..Len(eng_cells) : \A f \in ListSet(SENSITIVE_FIELDS) :
            LET src == eng_cells[h]
                out == TheVal(eng_ret)[h]
                overlap == CellOverlap(src, eng_user)
                ntk == NtkVisible(src, eng_user)
                visible == IF eng_class = "ntk" THEN overlap /\ ntk ELSE overlap
            IN src[f] # "" =>
                 IF visible
                 THEN out._field_access[f] = "visible" /\ out[f] = src[f]
                 ELSE IF eng_class = "ntk"
                 THEN IF ~overlap
                      THEN out._field_access[f] = "cell_denied" /\ out[f] = CELL_RESTRICTED
                      ELSE out._field_access[f] = "ntk_denied" /\ out[f] = NTK_RESTRICTED
                 ELSE out._field_access[f] = "redacted" /\ out[f] = SEARCH_REDACTED

\* an ntk-mode page with a field denied on need-to-know in its first hit and
\* a field denied on cells in its second
C19_Witness ==
    /\ Returned("apply_field_masking")
    /\ eng_class = "ntk"
    /\ Len(eng_cells) = 2
    /\ TheVal(eng_ret)[1]._field_access["source_name"] = "ntk_denied"
    /\ TheVal(eng_ret)[2]._field_access["raw_intel"] = "cell_denied"

-----------------------------------------------------------------------------
(* Malformed classifications in the document endpoint *)

\* C20: a document whose classification is not one of the four levels is
\* refused by get_document, and a field whose classification in
\* field_security is not one of the four levels is masked by
\* apply_cell_level_security, for every principal.
C20_MalformedDenied ==
    /\ Returned("get_document") =>
          (eng_cells[1]._source.classification \notin Levels
           => TheVal(eng_ret).status = 403)
    /\ Returned("apply_cell_level_security") =>
          LET source == eng_cells[1]._source
              out == TheVal(eng_ret)
          IN \A n \in 1..Len(source.field_security) :
                LET security == source.field_security[n]
                IN (security.classification \notin Levels
                    /\ security.field_name \in DOMAIN source)
                   => /\ Contains(out.masked_fields, security.field_name)
                      /\ out.filtered_doc._source[security.field_name] = REDACTED

-----------------------------------------------------------------------------
(* The listing and its counters *)

\* the ids of the stored records that are not deleted
LiveIds == {id \in 1..Len(records) : ~records[id].is_deleted}

\* C21: list_records returns exactly the non-deleted records whose
\* classification rank is at most the caller's clearance rank, each once and
\* with all of its cells (accessible or redacted); visible_to_you +
\* hidden_by_classification = total_in_system, and in every returned record
\* accessible_cells + redacted_cells = total_cells.
C21_ListRecords ==
    (resp # None /\ TheVal(req).op = "list_records") =>
        LET r == TheVal(resp)
            user == TheVal(req).user
            cleared == {id \in LiveIds :
                          clearance_rank(records[id].record_classification)
                             <= clearance_rank(user.clearance_level)}
        IN /\ {r.records[k].id : k \in 1..Len(r.records)} = cleared
           /\ Len(r.records) = Cardinality(cleared)
           /\ r.total_in_system = Cardinality(LiveIds)
           /\ r.visible_to_you = Len(r.records)
           /\ r.visible_to_you + r.hidden_by_classification = r.total_in_system
           /\ \A k \in 1..Len(r.records) :
                LET view == r.records[k]
                    stored == records[view.id]
                    stats == view.access_stats
                IN /\ Len(view.cells) = Len(stored.cells)
                   /\ \A i \in 1..Len(view.cells) :
                         /\ view.cells[i].field_name = stored.cells[i].field_name
                         /\ IF view.cells[i].accessible
                            THEN view.cells[i].field_value = stored.cells[i].field_value
                            ELSE view.cells[i].field_value = REDACTED
                   /\ stats.total_cells = Len(stored.cells)
                   /\ stats.accessible_cells
                         = Cardinality({i \in 1..Len(view.cells) : view.cells[i].accessible})
                   /\ stats.accessible_cells + stats.redacted_cells = stats.total_cells

\* a listing that shows a record with one cell redacted and hides another
\* record
C21_Witness ==
    /\ resp # None
    /\ TheVal(req).op = "list_records"
    /\ TheVal(resp).hidden_by_classification > 0
    /\ \E k \in 1..Len(TheVal(resp).records) :
          /\ TheVal(resp).records[k].access_stats.redacted_cells > 0
          /\ TheVal(resp).records[k].access_stats.accessible_cells > 0

-----------------------------------------------------------------------------
(* Who may create a record *)

\* C22: create_record succeeds only for a caller who passes the role check
\* for analyst, manager, admin and whose clearance rank is at least the rank
\* of the requested classification; a request for a classification above the
\* caller's clearance gets 403, and a request that does not succeed adds no
\* record and no cell to the store.
C22_CreateGuard ==
    [][(Served /\ TheVal(req').op = "create_record") =>
        LET q == TheVal(req')
            r == TheVal(resp')
            data == TheVal(q.data)
            above == clearance_rank(data.record_classification)
                        > clearance_rank(q.user.clearance_level)
        IN /\ r.status = 201 =>
                /\ require_role(q.user, {"analyst", "manager", "admin"})
                /\ ~above
                /\ Len(records') = Len(records) + 1
                /\ SubSeq(records', 1, Len(records)) = records
                /\ records'[Len(records')].record_classification
                      = data.record_classification
                /\ Len(records'[Len(records')].cells) = Len(data.cells)
           /\ above => r.status = 403
           /\ r.status # 201 => records' = records
      ]_vars

\* a manager cleared for SECRET asked for a TOP_SECRET record with two cells
\* and was refused on clearance
C22_Witness ==
    /\ resp # None
    /\ TheVal(req).op = "create_record"
    /\ require_role(TheVal(req).user, {"analyst", "manager", "admin"})
    /\ TheVal(TheVal(req).data).record_classification = "TOP_SECRET"
    /\ Len(TheVal(TheVal(req).data).cells) = 2
    /\ TheVal(resp).status = 403
    /\ TheVal(resp).detail = <<"Cannot create records above your clearance level">>
    /\ nreq = 1
    /\ records = SeedRecords

-----------------------------------------------------------------------------
(* The role check in front of the protected endpoints *)

\* the caller holds the admin role or one of the roles listed
HoldsOneOf(user, listed) == \E i \in 1..Len(user.roles) : user.roles[i] \in listed \cup {"admin"}

\* the roles each protected endpoint lists
RolesListed(op) ==
    CASE op \in {"create_record", "update_record"} -> {"analyst", "manager", "admin"}
      [] op \in {"delete_record", "list_users", "create_approval", "revoke_approval"}
            -> {"manager", "admin"}
      [] op = "update_user" -> {"admin"}
      [] op = "get_audit_logs" -> {"auditor", "admin"}

\* C23: a protected endpoint runs only for a caller who holds the admin role
\* or one of the roles it lists; every other caller gets 403 and the tables
\* stay as they were. A caller who is only a viewer or only an analyst cannot
\* list users or read audit logs, a manager can list users, an auditor can
\* read audit logs.
C23_RoleGate ==
    [][Served =>
        LET q == TheVal(req')
            r == TheVal(resp')
            only(role) == ListSet(q.user.roles) = {role}
        IN /\ q.op \notin {"list_records", "get_record"} =>
                IF HoldsOneOf(q.user, RolesListed(q.op))
                THEN \/ r.status # 403
                     \/ Head(r.detail) # "Requires one of roles: "
                ELSE /\ r.status = 403
                     /\ Head(r.detail) = "Requires one of roles: "
                     /\ UNCHANGED <<records, db_users, approvals, audit>>
           /\ (q.op \in {"list_users", "get_audit_logs"}
                  /\ (only("viewer") \/ only("analyst"))) => r.status = 403
           /\ (q.op = "list_users" /\ Contains(q.user.roles, "manager")) => r.status = 200
           /\ (q.op = "get_audit_logs" /\ Contains(q.user.roles, "auditor")) => r.status = 200
      ]_vars

\* an auditor who is not an admin read the audit log after a request that
\* changed no table
C23_Witness ==
    /\ resp # None
    /\ TheVal(req).op = "get_audit_logs"
    /\ ~is_admin(TheVal(req).user)
    /\ TheVal(resp).status = 200
    /\ nreq = 2
    /\ audit = <<>>
    /\ db_users = SeedUsers

-----------------------------------------------------------------------------
(* The time-to-live policy of the signing-key caches *)

\* the request of the coroutine was denied: no payload, no profile
Denied(call) ==
    /\ call.result # None
    /\ TheVal(call.result).status \in {401, 503}
    /\ "profile" \notin DOMAIN TheVal(call.result)
    /\ "preferred_username" \notin DOMAIN TheVal(call.result)

\* the cache a lookup found was non-empty and younger than the time-to-live
Young(lookup) == lookup.cached # None /\ lookup.age < JWKS_CACHE_TTL

\* what the policy asks of one lookup of a coroutine
FollowsPolicy(call, lookup) ==
    /\ Young(lookup) => lookup.fetch = "none" /\ lookup.returned = lookup.cached
    /\ ~Young(lookup) => lookup.fetch # "none"
    /\ (lookup.fetch = "failed" /\ lookup.held # None) => lookup.returned = lookup.held
    /\ (lookup.fetch = "failed" /\ lookup.held = None) => Denied(call)

\* C24: in the backend and in the search app, a non-empty cached key set
\* younger than the time-to-live is returned without a fetch; otherwise a
\* fetch is made; a failed fetch returns the key set cached before; and a
\* failed fetch with nothing cached denies the request, which is served under
\* no identity.
C24_CachePolicy ==
    \A c \in 1..MaxCalls :
        \A n \in 1..Len(calls[c].lookups) : FollowsPolicy(calls[c], calls[c].lookups[n])

-----------------------------------------------------------------------------
(* The forced refresh of decode_token *)

\* C25: in decode_token, under every interleaving of concurrent requests,
\* when the key id of the token is absent from the key set the first lookup
\* returned, one further lookup follows and it sends a request to Keycloak
\* whatever the age of the cache; the token is rejected with 401 if the key id
\* is absent from what that lookup returns; and when the first lookup finds
\* the key id there is no further lookup.
C25_ForcedRefresh ==
    \A c \in 1..MaxCalls :
        LET call == calls[c]
            seen(n) == TheVal(call.lookups[n].returned)
        IN (call.app = "backend" /\ Len(call.lookups) >= 1
               /\ call.lookups[1].returned # None) =>
              /\ Len(call.lookups) <= 2
              /\ IF call.kid \in seen(1)
                 THEN /\ Len(call.lookups) = 1
                      /\ TheVal(call.result).status = 200
                 ELSE /\ Len(call.lookups) = 2
                      /\ call.lookups[2].fetch # "none"
                      /\ call.pc = "done" =>
                            IF call.kid \in seen(2)
                            THEN TheVal(call.result).status = 200
                            ELSE TheVal(call.result) = UnknownSigningKey

\* a token signed with the rotated key met a key set fetched that moment
\* without its key, the refresh it forced all the same brought the new key,
\* and another request was waiting for Keycloak meanwhile
C25_Witness ==
    \E c, d \in 1..MaxCalls :
        /\ calls[c].app = "backend"
        /\ calls[c].pc = "done"
        /\ Len(calls[c].lookups) = 2
        /\ calls[c].lookups[1].fetch = "ok"
        /\ calls[c].kid \notin TheVal(calls[c].lookups[1].returned)
        /\ calls[c].lookups[2].fetch = "ok"
        /\ TheVal(calls[c].result).status = 200
        /\ calls[d].app = "backend"
        /\ calls[d].pc = "get_jwks"

-----------------------------------------------------------------------------
(* The classification a record is given *)

\* C26: a step that serves create_record or update_record gives no record a
\* classification that ranks above the clearance of the user it serves: the
\* record it adds, and every record whose classification it changes, ranks at
\* most that user's clearance.
C26_ClassificationCeiling ==
    [][(Served /\ TheVal(req').op \in {"create_record", "update_record"}) =>
        \A id \in 1..Len(records') :
            (\/ id > Len(records)
             \/ records'[id].record_classification # records[id].record_classification)
            => clearance_rank(records'[id].record_classification)
                  <= clearance_rank(TheVal(req').user.clearance_level)
      ]_vars

-----------------------------------------------------------------------------
(* Approvals and the compartments stored with a user *)

\* C27: under the approval operations and the record operations that
\* synchronise the caller's row, the approved_compartments stored for a user
\* contain compartment c whenever an ACTIVE approval for (user, c) is stored,
\* and do not contain c when the request served last revoked that approval.
C27_ApprovalsInSync ==
    /\ \A k \in 1..Len(approvals), i \in 1..Len(db_users) :
          (approvals[k].status = "ACTIVE" /\ db_users[i].id = approvals[k].user_id)
          => Contains(db_users[i].approved_compartments, approvals[k].compartment)
    /\ (resp # None /\ TheVal(req).op = "revoke_approval" /\ TheVal(resp).status = 200) =>
          LET approval == approvals[TheVal(TheVal(req).data).approval_id]
          IN \A i \in 1..Len(db_users) :
                db_users[i].id = approval.user_id
                => ~Contains(db_users[i].approved_compartments, approval.compartment)

-----------------------------------------------------------------------------
(* C28: the approvals table holds at most one row per (user, compartment)  *)
(* pair, whatever create_approval requests ran and however they            *)
(* interleaved at their await points; a request that finds a row of its    *)
(* pair ends with 409                                                      *)

C28_OneRowPerPair ==
    /\ \A j, k \in 1..Len(approvals) :
          (approvals[j].user_id = approvals[k].user_id
           /\ approvals[j].compartment = approvals[k].compartment) => j = k
    /\ \A c \in 1..MaxCalls :
          (calls[c].pc \in {"commit", "log_crud_event"}
           \/ (calls[c].pc = "done" /\ TheVal(calls[c].result).status = 200))
          => \A k \in 1..Len(SeedApprovals) :
                ~(approvals[k].user_id = calls[c].data.user_id
                  /\ approvals[k].compartment = calls[c].data.compartment)

-----------------------------------------------------------------------------
(* The two paths of the search backend *)

\* C29: for every principal and every stored document, get_document returns
\* the document (no 403) iff the document satisfies the filters
\* build_security_filter builds for that principal.
C29_SamePredicate ==
    /\ Returned("get_document") =>
          (TheVal(eng_ret).status # 403
           <=> SecurityFilterMatches(build_security_filter(eng_user), eng_cells[1]._source))
    /\ Returned("build_security_filter") =>
          (TheVal(eng_ret).hit
           <=> get_document(eng_cells[1], eng_user).status # 403)

-----------------------------------------------------------------------------
(* Soft deletion *)

\* the request of the step names a deleted record
OnDeleted(id) ==
    /\ TheVal(req').op \in {"get_record", "update_record", "delete_record"}
    /\ TheVal(req').record_id = Some(id)

\* the role check of the operation the step served
PassesRoleCheck ==
    LET q == TheVal(req')
    IN CASE q.op = "update_record" ->
                require_role(q.user, {"analyst", "manager", "admin"})
         [] q.op = "delete_record" -> require_role(q.user, {"manager", "admin"})
         [] OTHER -> TRUE

\* what every step keeps of a deleted record, and what a listing shows of it
StaysDeleted(id) ==
    /\ id \in 1..Len(records')
    /\ records'[id] = records[id]
    /\ TheVal(req').op = "list_records" =>
          LET r == TheVal(resp')
          IN /\ \A k \in 1..Len(r.records) : r.records[k].id # id
             /\ r.total_in_system
                   = Cardinality({j \in 1..Len(records) : ~records[j].is_deleted})
             /\ r.visible_to_you + r.hidden_by_classification = r.total_in_system

\* C30 as stated: once a record is deleted no later operation clears the
\* flag, every later list_records omits it and does not count it, and every
\* later get_record, update_record or delete_record on it returns 404
\* without returning or changing any of its cells.
C30_Original ==
    [][Served =>
        \A id \in 1..Len(records) : records[id].is_deleted =>
            /\ StaysDeleted(id)
            /\ OnDeleted(id) => resp' = Some(NotFound)]_vars

\* C30: once a record is deleted no later operation clears the flag or
\* changes its cells, every later list_records omits it and does not count
\* it, every later get_record on it returns 404, and every later
\* update_record or delete_record on it returns 404 to a caller who passes
\* the role check of the operation and the 403 of the role check to a caller
\* who does not; neither response carries a cell.
C30_SoftDeletePermanent ==
    [][Served =>
        \A id \in 1..Len(records) : records[id].is_deleted =>
            /\ StaysDeleted(id)
            /\ OnDeleted(id) =>
                  IF PassesRoleCheck THEN resp' = Some(NotFound)
                  ELSE /\ TheVal(resp').status = 403
                       /\ DOMAIN TheVal(resp') = {"status", "detail"}]_vars

\* a record deleted by an earlier request, and an update of it by a caller
\* with the role answered 404
C30_Witness ==
    /\ nreq = 2
    /\ TheVal(req).op = "update_record"
    /\ require_role(TheVal(req).user, {"analyst", "manager", "admin"})
    /\ TheVal(req).record_id # None
    /\ TheVal(TheVal(req).record_id) \in 1..Len(records)
    /\ records[TheVal(TheVal(req).record_id)].is_deleted
    /\ resp = Some(NotFound)
    /\ \E n \in 1..Len(audit) : audit[n].action = "DELETE"

====
